---- MODULE Spec2Model ----
(***************************************************************************)
(* Model of the marketplace scraper: MarketplaceScraper (multi-page        *)
(* download and parse session) and HtmlParser (page parser, ad record      *)
(* builder, field extractors, sorted JSON output).                         *)
(*                                                                         *)
(* Text is a sequence of one-character strings.  Time is counted in whole  *)
(* minutes since the epoch: every duration the code uses is a multiple of  *)
(* 60 * 1000 ms, and a Date is <<t>>, undefined is <<>>.  A JavaScript     *)
(* number that may be NaN is <<n>>, NaN is <<>>.  A character outside      *)
(* ASCII is written as its code point, "U+20AC" for the euro sign.  A      *)
(* price amount is counted in thousandths.                                 *)
(***************************************************************************)
EXTENDS Integers, Sequences, FiniteSets, TLC

(***************************************************************************)
(* Bounds of the model.                                                    *)
(***************************************************************************)
\* largest page index a page-1 navigation link or summary text may name
MaxLinkPage == 3
\* largest N of a posted text "pre N <unit>" given to parseAdElement
MaxAge == 12
\* most ad containers in a page file parsed on its own
MaxContainers == 3
\* most ads in a list handed to saveAdsToJson on its own
MaxSortLen == 3
MaxUrls == 3

(***************************************************************************)
(* Characters and strings.                                                 *)
(***************************************************************************)
DigitChars == <<"0", "1", "2", "3", "4", "5", "6", "7", "8", "9">>

IsDigit(c) == \E d \in 1..10 : DigitChars[d] = c

DigitVal(c) == (CHOOSE d \in 1..10 : DigitChars[d] = c) - 1

\* /\s/
IsSpace(c) == c \in {" ", "\t", "\n"}

\* String.prototype.toLowerCase on the letters the patterns use
ToLower(c) ==
  CASE c = "P" -> "p" [] c = "R" -> "r" [] c = "E" -> "e" [] c = "D" -> "d"
    [] c = "A" -> "a" [] c = "N" -> "n" [] c = "S" -> "s" [] c = "T" -> "t"
    [] c = "M" -> "m" [] c = "I" -> "i" [] c = "U" -> "u"
    [] c = "U+00C2" -> "U+00E2"
    [] OTHER -> c

\* String.prototype.toUpperCase on the characters of the currency tokens
ToUpper(c) ==
  CASE c = "d" -> "D" [] c = "i" -> "I" [] c = "n" -> "N" [] c = "r" -> "R"
    [] c = "s" -> "S" [] c = "e" -> "E" [] c = "u" -> "U"
    [] c = "U+00E2" -> "U+00C2"
    [] OTHER -> c

LowerCase(s) == [k \in 1..Len(s) |-> ToLower(s[k])]
UpperCase(s) == [k \in 1..Len(s) |-> ToUpper(s[k])]

RECURSIVE TrimStart(_)
TrimStart(s) ==
  IF s # <<>> /\ IsSpace(Head(s)) THEN TrimStart(Tail(s)) ELSE s

RECURSIVE TrimEnd(_)
TrimEnd(s) ==
  IF s # <<>> /\ IsSpace(s[Len(s)]) THEN TrimEnd(SubSeq(s, 1, Len(s) - 1)) ELSE s

\* String.prototype.trim
Trim(s) == TrimEnd(TrimStart(s))

\* s.replace(/\s+/g, " "): every run of white space becomes one blank
RECURSIVE CollapseSpaces(_)
CollapseSpaces(s) ==
  IF s = <<>> THEN <<>>
  ELSE IF IsSpace(Head(s))
       THEN <<" ">> \o CollapseSpaces(TrimStart(s))
       ELSE <<Head(s)>> \o CollapseSpaces(Tail(s))

\* const cleanText = priceText.replace(/\s+/g, " ").trim()
CleanText(s) == Trim(CollapseSpaces(s))

\* whether the literal w (lower case) stands at position i of s, any letter case
LitAt(s, i, w) ==
  /\ i + Len(w) - 1 <= Len(s)
  /\ \A k \in 1..Len(w) : ToLower(s[i + k - 1]) = w[k]

\* first position >= i of s that holds no white space (Len(s) + 1 if none)
RECURSIVE SkipSpaces(_, _)
SkipSpaces(s, i) ==
  IF i <= Len(s) /\ IsSpace(s[i]) THEN SkipSpaces(s, i + 1) ELSE i

\* first position >= i of s that holds no digit
RECURSIVE SkipDigits(_, _)
SkipDigits(s, i) ==
  IF i <= Len(s) /\ IsDigit(s[i]) THEN SkipDigits(s, i + 1) ELSE i

\* parseInt of a run of digits
RECURSIVE DigitsValue(_)
DigitsValue(ds) ==
  IF ds = <<>> THEN 0
  ELSE 10 * DigitsValue(SubSeq(ds, 1, Len(ds) - 1)) + DigitVal(ds[Len(ds)])

\* parseInt(text): leading white space, an optional sign, then a run of
\* digits; NaN without one
\* k: first position behind the sign, j: end of the run of digits
ParseIntDigits(text, negative, k, j) ==
  IF j > k
  THEN <<IF negative THEN 0 - DigitsValue(SubSeq(text, k, j - 1))
         ELSE DigitsValue(SubSeq(text, k, j - 1))>>
  ELSE <<>>

ParseIntSigned(text, negative, k) ==
  ParseIntDigits(text, negative, k, SkipDigits(text, k))

ParseIntFrom(text, i) ==
  IF i <= Len(text) /\ text[i] \in {"-", "+"}
  THEN ParseIntSigned(text, text[i] = "-", i + 1)
  ELSE ParseIntSigned(text, FALSE, i)

ParseInt(text) == ParseIntFrom(text, SkipSpaces(text, 1))

(***************************************************************************)
(* Field extractors of HtmlParser.                                         *)
(***************************************************************************)
\* the alternatives (din|rsd|eur|usd|\$|...) of the price pattern, in the
\* order of the source; the last one is the three characters the source
\* file holds there (U+00E2 U+201A U+00AC), not the euro sign
PriceTokens ==
  <<<<"d", "i", "n">>, <<"r", "s", "d">>, <<"e", "u", "r">>,
    <<"u", "s", "d">>, <<"$">>, <<"U+00E2", "U+201A", "U+00AC">>>>

\* the first alternative that matches at position j of s, 0 if none does
TokenAt(s, j) ==
  IF \E k \in 1..Len(PriceTokens) : LitAt(s, j, PriceTokens[k])
  THEN CHOOSE k \in 1..Len(PriceTokens) :
         /\ LitAt(s, j, PriceTokens[k])
         /\ \A m \in 1..(k - 1) : ~LitAt(s, j, PriceTokens[m])
  ELSE 0

\* the match of /(\d+(?:\.\d+)?)\s*(din|rsd|eur|usd|\$|...)/i that starts at
\* position i of s: <<>> when there is none, else <<[whole, frac, token]>>,
\* the digits before and behind the dot of group 1 and the text of group 2.
\* a: end of \d+, b: end of (?:\.\d+)?, c: end of \s*, k: the alternative.
\* Giving back digits or the fraction never lets the rest match, since a
\* digit or a dot starts neither white space nor a token.
PriceMatchToken(s, i, a, b, c, k) ==
  IF a > i /\ k > 0
  THEN <<[whole |-> SubSeq(s, i, a - 1),
          frac |-> SubSeq(s, a + 1, b - 1),
          token |-> SubSeq(s, c, c + Len(PriceTokens[k]) - 1)]>>
  ELSE <<>>

PriceMatchSpaces(s, i, a, b, c) == PriceMatchToken(s, i, a, b, c, TokenAt(s, c))

PriceMatchFraction(s, i, a, b) == PriceMatchSpaces(s, i, a, b, SkipSpaces(s, b))

\* end of (?:\.\d+)? tried at position a
FractionEnd(s, a, behindDot) ==
  IF a <= Len(s) /\ s[a] = "." /\ behindDot > a + 1 THEN behindDot ELSE a

PriceMatchWhole(s, i, a) ==
  PriceMatchFraction(s, i, a, FractionEnd(s, a, SkipDigits(s, a + 1)))

PriceMatchAt(s, i) == PriceMatchWhole(s, i, SkipDigits(s, i))

\* parseFloat of digits "." digits, in thousandths (up to three digits
\* behind the dot)
ParseFloat(whole, frac) ==
  DigitsValue(whole) * 1000
    + DigitsValue(SubSeq(frac \o <<"0", "0", "0">>, 1, 3))

\* currency === "din" ? "RSD" : currency.toUpperCase()
CurrencyOf(currency) ==
  IF currency = <<"d", "i", "n">> THEN <<"R", "S", "D">> ELSE UpperCase(currency)

\* the two returns of parsePrice
PriceOfMatch(cleanText, match) ==
  IF match # <<>>
  THEN [amount |-> ParseFloat(match[1].whole, match[1].frac),
        currency |-> CurrencyOf(LowerCase(match[1].token)),
        formatted |-> cleanText]
  ELSE [amount |-> 0, currency |-> <<"R", "S", "D">>, formatted |-> cleanText]

\* 24 * 60 * 60 * 1000 ms, 60 * 60 * 1000 ms and 60 * 1000 ms, in minutes
DayMinutes == 24 * 60
HourMinutes == 60
MinuteMinutes == 1

\* the match of /pre\s+(\d+)\s+<unit>/i that starts at position i of s:
\* <<>> when there is none, else <<the digits of group 1>>.  White space and
\* digits are disjoint classes, so the greedy runs never backtrack.
\* b: end of the first \s+, c: end of \d+, d: end of the second \s+
RelTimeGroups(s, i, unit, b, c, d) ==
  IF LitAt(s, i, <<"p", "r", "e">>) /\ b > i + 3 /\ c > b /\ d > c
     /\ LitAt(s, d, unit)
  THEN <<SubSeq(s, b, c - 1)>>
  ELSE <<>>

RelTimeDigits(s, i, unit, b, c) ==
  RelTimeGroups(s, i, unit, b, c, SkipSpaces(s, c))

RelTimeSpaces(s, i, unit, b) == RelTimeDigits(s, i, unit, b, SkipDigits(s, b))

RelTimeMatchAt(s, i, unit) == RelTimeSpaces(s, i, unit, SkipSpaces(s, i + 3))

UnitDan == <<"d", "a", "n">>
UnitSat == <<"s", "a", "t">>
UnitMinut == <<"m", "i", "n", "u", "t">>

\* the alternation (dan|dana|sat|sati|minut|minuta) tried at one start
\* position: the first alternative that matches wins, so the captured unit
\* is "dan", "sat" or "minut" (each is a prefix of its longer form)
FirstAlternative(dan, sat, minut) ==
  IF dan # <<>> THEN <<[number |-> dan[1], unit |-> "dan"]>>
  ELSE IF sat # <<>> THEN <<[number |-> sat[1], unit |-> "sat"]>>
  ELSE IF minut # <<>> THEN <<[number |-> minut[1], unit |-> "minut"]>>
  ELSE <<>>

PostedMatchAt(s, i) ==
  FirstAlternative(RelTimeMatchAt(s, i, UnitDan), RelTimeMatchAt(s, i, UnitSat),
                   RelTimeMatchAt(s, i, UnitMinut))

\* postedAgo.match(/pre\s+(\d+)\s+(dan|dana|sat|sati|minut|minuta)/i):
\* the leftmost match
Leftmost(starts) == CHOOSE i \in starts : \A j \in starts : i <= j

PriceMatchAmong(s, starts) ==
  IF starts = {} THEN <<>> ELSE PriceMatchAt(s, Leftmost(starts))

\* cleanText.match(...): the leftmost match
PriceMatch(s) ==
  PriceMatchAmong(s, {i \in 1..Len(s) : PriceMatchAt(s, i) # <<>>})

PriceOfClean(cleanText) == PriceOfMatch(cleanText, PriceMatch(cleanText))

parsePrice(priceText) == PriceOfClean(CleanText(priceText))

\* parseLocation
parseLocation(locationText) ==
  [name |-> CleanText(locationText), hasDelivery |-> FALSE]

PostedMatchAmong(s, starts) ==
  IF starts = {} THEN <<>> ELSE PostedMatchAt(s, Leftmost(starts))

PostedMatch(s) ==
  PostedMatchAmong(s, {i \in 1..Len(s) : PostedMatchAt(s, i) # <<>>})

\* the branches of parsePostedDate on the match: unit.includes("dan"),
\* unit.includes("sat"), unit.includes("minut")
DateOfMatch_hoursAsDays(match, now) ==
  IF match # <<>> /\ match[1].number # <<>>
  THEN IF match[1].unit = "dan"
       THEN <<now - DigitsValue(match[1].number) * DayMinutes>>
       ELSE IF match[1].unit = "sat"
       THEN <<now - DigitsValue(match[1].number) * DayMinutes>>
       ELSE <<now - DigitsValue(match[1].number) * MinuteMinutes>>
  ELSE <<>>

DateOfMatch_fromEpoch(match, now) ==
  IF match # <<>> /\ match[1].number # <<>>
  THEN IF match[1].unit = "dan"
       THEN <<DigitsValue(match[1].number) * DayMinutes>>
       ELSE IF match[1].unit = "sat"
       THEN <<DigitsValue(match[1].number) * HourMinutes>>
       ELSE <<DigitsValue(match[1].number) * MinuteMinutes>>
  ELSE <<>>

DateOfMatch(match, now) ==
  IF match # <<>> /\ match[1].number # <<>>
  THEN IF match[1].unit = "dan"
       THEN <<now - DigitsValue(match[1].number) * DayMinutes>>
       ELSE IF match[1].unit = "sat"
       THEN <<now - DigitsValue(match[1].number) * HourMinutes>>
       ELSE <<now - DigitsValue(match[1].number) * MinuteMinutes>>
  ELSE <<>>

\* parsePostedDate, with now = new Date()
parsePostedDate(postedAgo, now) == DateOfMatch(PostedMatch(postedAgo), now)

DaysAmong(s, starts) ==
  IF starts = {} THEN 0
  ELSE DigitsValue(RelTimeMatchAt(s, Leftmost(starts), UnitDan)[1])

DaysOfAnyMatch(match) ==
  IF match = <<>> THEN 0 ELSE DigitsValue(match[1].number)

extractDaysAgo_anyUnit(postedAgo) == DaysOfAnyMatch(PostedMatch(postedAgo))

\* extractDaysAgo: postedAgo.match(/pre\s+(\d+)\s+dan/i), leftmost match
extractDaysAgo(postedAgo) ==
  DaysAmong(postedAgo, {i \in 1..Len(postedAgo) :
                          RelTimeMatchAt(postedAgo, i, UnitDan) # <<>>})

(***************************************************************************)
(* Ad record builder.  A container is the bag of raw texts the DOM queries *)
(* of parseAdElement return for one ad container:                          *)
(*   sectionId  attr("id")                                                 *)
(*   titleText  text of .AdItem_name__Knlo6                                *)
(*   href       href of the first a[href*="/oglas/"], "" without one       *)
(*   priceText  text of .AdItem_price__K4GWJ                               *)
(*   locationText text of the first .AdItem_originAndPromoLocation__3MXPY p*)
(*   postedText text of .AdItem_postedStatus__qQuya p                      *)
(*   counters   per .AdItem_favoriteHolder__ebvyz widget, in document      *)
(*              order, the text of its .AdItem_count__twhsU                *)
(*   raises     whether a DOM query on the container throws                *)
(***************************************************************************)
\* this.baseUrl, "https://www.kupujemprodajem.com", abbreviated
baseUrl == <<"h", "t", "t", "p", "s", ":", "/", "/", "k", "p">>

\* relativeUrl.startsWith("http") ? relativeUrl : `${this.baseUrl}${relativeUrl}`
ResolveUrl(relativeUrl) ==
  IF Len(relativeUrl) >= 4 /\ SubSeq(relativeUrl, 1, 4) = <<"h", "t", "t", "p">>
  THEN relativeUrl
  ELSE baseUrl \o relativeUrl

\* the required-field validation: if (!title || !price.formatted || !url)
Rejected_ignoresTitle(title, formatted, url) ==
  formatted = <<>> \/ url = <<>>

Rejected(title, formatted, url) ==
  title = <<>> \/ formatted = <<>> \/ url = <<>>

\* n || 0 for n = parseInt(text): NaN and 0 are falsy
OrZero(n) == IF n = <<>> THEN 0 ELSE n[1]

\* $element.find(".AdItem_favoriteHolder__ebvyz").first()
\*   .find(".AdItem_count__twhsU").text().trim()
viewText(c) == IF Len(c.counters) >= 1 THEN Trim(c.counters[1]) ELSE <<>>

\* favoriteElements.length > 1 ? favoriteElements.eq(1)...text().trim() : "0"
favoriteText(c) ==
  IF Len(c.counters) > 1 THEN Trim(c.counters[2]) ELSE <<"0">>

\* the record parseMetrics returns
MetricsOf(views, favorites, postedAgo, now) ==
  [views |-> views, favorites |-> favorites,
   postedAgo |-> postedAgo, postedDate |-> parsePostedDate(postedAgo, now)]

parseMetrics(c, now) ==
  MetricsOf(OrZero(ParseInt(viewText(c))), OrZero(ParseInt(favoriteText(c))),
            Trim(c.postedText), now)

\* parseAdElement: [kind |-> "throw"], [kind |-> "null"] or
\* [kind |-> "ad", ad |-> the ParsedAd]
\* parseAdElement from the extracted fields on
BuildAd(c, title, url, price, location, metrics, now) ==
  IF c.raises THEN [kind |-> "throw"]
  ELSE IF Rejected(title, price.formatted, url) THEN [kind |-> "null"]
  ELSE [kind |-> "ad",
        ad |-> [raw |-> [id |-> c.sectionId,
                         title |-> title,
                         price |-> price,
                         location |-> location,
                         url |-> url,
                         metrics |-> metrics],
                parsed |-> [priceNumeric |-> price.amount,
                            postedDaysAgo |-> extractDaysAgo(metrics.postedAgo),
                            isValidAd |-> TRUE],
                scrapingMetadata |-> [scrapedAt |-> now,
                                      sourceUrl |-> url,
                                      parsingSuccess |-> TRUE,
                                      parsingErrors |-> <<>>]]]

parseAdElement(c, now) ==
  BuildAd(c, Trim(c.titleText), ResolveUrl(c.href),
          parsePrice(Trim(c.priceText)), parseLocation(Trim(c.locationText)),
          parseMetrics(c, now), now)

\* the locals of one parseAdElement call and what it returns
AdLocals(title, url, price, location, metrics, ret) ==
  [title |-> title, url |-> url, price |-> price, location |-> location,
   metrics |-> metrics, ret |-> ret]

ElementLocals(c, now) ==
  AdLocals(Trim(c.titleText), ResolveUrl(c.href),
           parsePrice(Trim(c.priceText)), parseLocation(Trim(c.locationText)),
           parseMetrics(c, now), parseAdElement(c, now))

(***************************************************************************)
(* Page parser.  A page file is [readable, htmlLength, containers]:        *)
(* whether readFileSync succeeds, the length of the HTML text, and the     *)
(* containers matching section[id][class*="AdItem_adOuterHolder"] in       *)
(* document order.                                                         *)
(***************************************************************************)
\* Math.round(n / 1024) for n >= 0
RoundKb(n) == (n + 512) \div 1024

\* one call of the adElements.each callback; index is 0-based
\* r is what parseAdElement did
AdStep_oneBased(acc, index, r) ==
  IF r.kind = "throw"
  THEN [acc EXCEPT !.errors =
          Append(@, [type |-> "EXTRACTION_FAILED", adIndex |-> <<index + 1>>])]
  ELSE IF r.kind = "ad"
  THEN [acc EXCEPT !.extractedAds = Append(@, r.ad)]
  ELSE acc

AdStep(acc, index, r) ==
  IF r.kind = "throw"
  THEN [acc EXCEPT !.errors =
          Append(@, [type |-> "EXTRACTION_FAILED", adIndex |-> <<index>>])]
  ELSE IF r.kind = "ad"
  THEN [acc EXCEPT !.extractedAds = Append(@, r.ad)]
  ELSE acc

\* adElements.each(...) over the first n containers
RECURSIVE EachAd(_, _, _)
EachAd(containers, n, now) ==
  IF n = 0 THEN [extractedAds |-> <<>>, errors |-> <<>>]
  ELSE AdStep(EachAd(containers, n - 1, now), n - 1,
              parseAdElement(containers[n], now))

\* the try block of parseHtmlFile: [threw |-> TRUE] when readFileSync
\* throws, else the value it returns
\* the value the try block returns once the each loop has left acc
PageResult_failedByDifference(file, acc, elapsed) ==
  [success |-> acc.errors = <<>>,
   extractedAds |-> acc.extractedAds,
   errors |-> acc.errors,
   warnings |-> <<>>,
   stats |-> [totalAdsFound |-> Len(file.containers),
              successfullyParsed |-> Len(acc.extractedAds),
              failedToParse |-> Len(file.containers) - Len(acc.extractedAds),
              parsingTimeMs |-> elapsed,
              htmlSizeKb |-> RoundKb(file.htmlLength)]]

PageResult(file, acc, elapsed) ==
  [success |-> acc.errors = <<>>,
   extractedAds |-> acc.extractedAds,
   errors |-> acc.errors,
   warnings |-> <<>>,
   stats |-> [totalAdsFound |-> Len(file.containers),
              successfullyParsed |-> Len(acc.extractedAds),
              failedToParse |-> Len(acc.errors),
              parsingTimeMs |-> elapsed,
              htmlSizeKb |-> RoundKb(file.htmlLength)]]

TryParse(file, now, elapsed) ==
  IF ~file.readable THEN [threw |-> TRUE]
  ELSE [threw |-> FALSE,
        value |-> PageResult(file,
                             EachAd(file.containers, Len(file.containers), now),
                             elapsed)]

\* the value the catch block of parseHtmlFile returns
ParseFailure_countsFailure(elapsed) ==
  [success |-> FALSE,
   extractedAds |-> <<>>,
   errors |-> <<[type |-> "EXTRACTION_FAILED", adIndex |-> <<>>]>>,
   warnings |-> <<>>,
   stats |-> [totalAdsFound |-> 0, successfullyParsed |-> 0,
              failedToParse |-> 1, parsingTimeMs |-> elapsed,
              htmlSizeKb |-> 0]]

ParseFailure(elapsed) ==
  [success |-> FALSE,
   extractedAds |-> <<>>,
   errors |-> <<[type |-> "EXTRACTION_FAILED", adIndex |-> <<>>]>>,
   warnings |-> <<>>,
   stats |-> [totalAdsFound |-> 0, successfullyParsed |-> 0,
              failedToParse |-> 0, parsingTimeMs |-> elapsed,
              htmlSizeKb |-> 0]]

parseHtmlFile_noCatch(file, now, elapsed) == TryParse(file, now, elapsed)

\* parseHtmlFile: [threw |-> FALSE, value |-> the HtmlParsingResult], or
\* [threw |-> TRUE] if an exception left the function
CatchParse(r, elapsed) ==
  IF r.threw THEN [threw |-> FALSE, value |-> ParseFailure(elapsed)] ELSE r

parseHtmlFile(file, now, elapsed) ==
  CatchParse(TryParse(file, now, elapsed), elapsed)

(***************************************************************************)
(* saveAdsToJson.                                                          *)
(***************************************************************************)
\* a.raw.metrics.postedDate || new Date(0), then getTime()
SortTime(ad) ==
  IF ad.raw.metrics.postedDate = <<>> THEN 0 ELSE ad.raw.metrics.postedDate[1]

\* the comparator: dateB.getTime() - dateA.getTime()
CompareAds(a, b) == SortTime(b) - SortTime(a)

\* Array.prototype.sort is stable: x goes behind every element that the
\* comparator does not order after it
InsertAt(sorted, x, k) ==
  SubSeq(sorted, 1, k) \o <<x>> \o SubSeq(sorted, k + 1, Len(sorted))

StableInsert(sorted, x) ==
  InsertAt(sorted, x,
    Cardinality({i \in 1..Len(sorted) : CompareAds(sorted[i], x) <= 0}))

RECURSIVE SortAds(_)
SortAds(ads) ==
  IF ads = <<>> THEN <<>>
  ELSE StableInsert(SortAds(SubSeq(ads, 1, Len(ads) - 1)), ads[Len(ads)])

AdsAfterSort_inPlace(ads) == SortAds(ads)

\* the caller's array after const sortedAds = [...ads].sort(...): the
\* spread copies it, so the sort leaves it as it was
AdsAfterSort(ads) == ads

\* scrapingMetadata?.totalPages || 1, for a number that may be NaN
TotalPagesOr1(totalPages) ==
  IF totalPages = <<>> \/ totalPages = <<0>> THEN 1 ELSE totalPages[1]

\* the jsonData object saveAdsToJson serialises
JsonData(ads, totalPages, pageResults) ==
  [totalAds |-> Len(SortAds(ads)),
   totalPages |-> TotalPagesOr1(totalPages),
   pageResults |-> pageResults,
   ads |-> SortAds(ads)]

(***************************************************************************)
(* Inputs of the model.                                                    *)
(***************************************************************************)
\* new Date(): the capture time, 20000 days after the epoch
Now == 20000 * DayMinutes

Container(id, title, href, price, location, posted, raises) ==
  [sectionId |-> id, titleText |-> title, href |-> href, priceText |-> price,
   locationText |-> location, postedText |-> posted, raises |-> raises,
   counters |-> <<>>]

\* the container c with the given texts in its counter widgets
WithCounters(c, counters) == [c EXCEPT !.counters = counters]

HrefRel == <<"/", "o", "g", "l", "a", "s", "/", "1">>
PriceDin == <<"5", " ", "d", "i", "n">>
Pre3Dana == <<"p", "r", "e", " ", "3", " ", "d", "a", "n", "a">>
Pre2Sati == <<"p", "r", "e", " ", "2", " ", "s", "a", "t", "i">>
Pre30000Dana ==
  <<"p", "r", "e", " ", "3", "0", "0", "0", "0", " ", "d", "a", "n", "a">>
Pre20000Dana ==
  <<"p", "r", "e", " ", "2", "0", "0", "0", "0", " ", "d", "a", "n", "a">>

\* posted three days ago
cFresh == Container(<<"1">>, <<"A">>, HrefRel, PriceDin, <<>>,
  Pre3Dana, FALSE)
\* another ad posted three days ago
cFreshToo == Container(<<"8">>, <<"H">>, HrefRel, PriceDin, <<>>,
  Pre3Dana, FALSE)
\* posted two hours ago
cHours == Container(<<"2">>, <<"B">>, HrefRel, PriceDin, <<>>,
  Pre2Sati, FALSE)
\* no posted text: postedDate is undefined
cUndated == Container(<<"3">>, <<"C">>, HrefRel, PriceDin, <<>>,
  <<>>, FALSE)
\* posted 30000 days ago, which is before the epoch
cOld == Container(<<"4">>, <<"D">>, HrefRel, PriceDin, <<>>,
  Pre30000Dana, FALSE)
\* posted 20000 days ago, which is the epoch itself
cEpoch == Container(<<"5">>, <<"E">>, HrefRel, PriceDin, <<>>,
  Pre20000Dana, FALSE)
\* blank title: the builder rejects it
cNoTitle == Container(<<"6">>, <<" ">>, HrefRel, PriceDin, <<>>,
  Pre3Dana, FALSE)
\* a DOM query throws
cThrows == Container(<<"7">>, <<"G">>, HrefRel, PriceDin, <<>>,
  Pre3Dana, TRUE)

\* no posted text either
cUndatedToo == Container(<<"9">>, <<"I">>, HrefRel, PriceDin, <<>>,
  <<" ">>, FALSE)

Containers ==
  {cFresh, cFreshToo, cHours, cUndated, cUndatedToo, cOld, cEpoch, cNoTitle,
   cThrows}

SeqsUpTo(S, n) == UNION {[1..k -> S] : k \in 0..n}

PageFile(containers) ==
  [htmlLength |-> 1024 * (1 + Len(containers)), containers |-> containers]

\* the rendered pages a session may be served
SessionPages ==
  {PageFile(cs) : cs \in {<<>>, <<cUndated, cFresh>>,
                          <<cNoTitle, cThrows, cHours>>}}

\* config?.maxPages: <<>> is undefined
CfgMaxPages == {<<>>, <<0>>, <<1>>, <<2>>}

\* process.env.MAX_PAGES: <<>> is unset, <<text>> is set
EnvMaxPages == {<<>>, <<<<"a", "b", "c">>>>, <<<<"2">>>>}

\* parsingTimeMs of one page parse
ElapsedTimes == {1, 2}

(***************************************************************************)
(* MarketplaceScraper.downloadMarketplaceHTML: page count and page limit.  *)
(***************************************************************************)
\* the "reasonable limit" of the pagination-text scan
PageCeiling == 100

SetMax(S) == CHOOSE x \in S : \A y \in S : y <= x

\* the page.evaluate callback: linkPages are the page=<n> values of the
\* a[href*="page="] links, textNumbers the /(\d+)/g matches of the first
\* pagination element's text (<<>> without such an element or match)
\* fromLinks: maxPage after the links; numbers: the text's numbers > 0
MaxPageOf(fromLinks, numbers) ==
  IF numbers # {} /\ SetMax(numbers) > fromLinks
     /\ SetMax(numbers) <= PageCeiling
  THEN SetMax(numbers)
  ELSE fromLinks

DetectMaxPage(linkPages, textNumbers) ==
  MaxPageOf(SetMax(linkPages \cup {1}),
            {textNumbers[k] : k \in 1..Len(textNumbers)} \ {0})

\* config?.maxPages || parseInt(process.env.MAX_PAGES || "5"); the
\* parameters are named for what they hold, the state variables cfg and env
MaxPagesToScrape(maxPages, envText) ==
  IF maxPages # <<>> /\ maxPages # <<0>> THEN maxPages
  ELSE ParseInt(IF envText = <<>> \/ envText = <<<<>>>> THEN <<"5">>
                ELSE envText[1])

\* Math.min(a, b) where b may be NaN
MathMin(a, b) == IF b = <<>> THEN <<>> ELSE <<IF a <= b[1] THEN a ELSE b[1]>>

\* a <= b and a < b where b may be NaN (a comparison with NaN is false)
LessEq(a, b) == b # <<>> /\ a <= b[1]
Less(a, b) == b # <<>> /\ a < b[1]

(***************************************************************************)
(* The multi-page session: MarketplaceScraper.init, close,                 *)
(* downloadAndParseMarketplace and the downloadMarketplaceHTML it awaits.  *)
(***************************************************************************)
VARIABLES
  browser,            \* this.browser !== null
  openPages,          \* pages opened by newPage() and not yet closed
  pc,                 \* position of the session
  cfg,                \* config?.maxPages of the call
  env,                \* process.env.MAX_PAGES of the call
  maxPage,            \* the page count page.evaluate returned (0 before)
  totalPages,         \* let totalPages (may be NaN)
  pageNum,            \* the download loop's pageNum
  filePaths,          \* filePaths: the page number each saved file holds
  files,              \* the saved HTML files, in the order of filePaths
  inFlight,           \* page fetches started and not yet ended
  error,              \* the exception pending or raised, "none" without one
  i,                  \* the parse loop's i
  allAds,             \* let allAds
  totalAdsFound,      \* let totalAdsFound
  totalParsingTime,   \* let totalParsingTime
  totalHtmlSize,      \* let totalHtmlSize
  pageResults,        \* const pageResults
  combinedResult,     \* <<>> before it is built, then <<combinedResult>>
  jsonFile,           \* <<>> or <<the jsonData written by saveAdsToJson>>
  log,                \* history: the session's events in order
  failures,           \* history: the failures that occurred
  pageParsingResults, \* history: the value of each parseHtmlFile call
  captureTimes,       \* history: new Date() at each parse
  extracted,          \* <<>> or <<the locals of a parseAdElement call>>
  pagination,         \* <<>> or <<what page.evaluate finds on page 1>>
  abortAt,            \* history: <<>> or <<the page in work when the
                      \* caller asked to abort>>
  urls,               \* WebScraper.scrapeMultiple: urls
  urlIndex,           \* WebScraper.scrapeMultiple: position in urls
  webResults          \* WebScraper.scrapeMultiple: results

vars == <<browser, openPages, pc, cfg, env, maxPage, totalPages, pageNum,
          filePaths, files, inFlight, error, i, allAds, totalAdsFound,
          totalParsingTime, totalHtmlSize, pageResults, combinedResult,
          jsonFile, log, failures, pageParsingResults, captureTimes,
          extracted, pagination, abortAt, urls, urlIndex, webResults>>

downloadVars == <<maxPage, totalPages, pageNum, filePaths, files, inFlight>>
parseVars == <<i, allAds, totalAdsFound, totalParsingTime, totalHtmlSize,
               pageResults, combinedResult, jsonFile, pageParsingResults,
               captureTimes, extracted>>

otherVars == <<pagination, abortAt, urls, urlIndex, webResults>>

Event(ev, page) == [ev |-> ev, page |-> page]

\* a MarketplaceScraper and an HtmlParser just constructed, no call made
Fresh ==
  /\ browser = FALSE
  /\ openPages = 0
  /\ cfg = <<>>
  /\ env = <<>>
  /\ maxPage = 0
  /\ totalPages = <<1>>
  /\ pageNum = 0
  /\ filePaths = <<>>
  /\ inFlight = 0
  /\ error = "none"
  /\ i = 0
  /\ totalAdsFound = 0
  /\ totalParsingTime = 0
  /\ totalHtmlSize = 0
  /\ pageResults = <<>>
  /\ combinedResult = <<>>
  /\ jsonFile = <<>>
  /\ log = <<>>
  /\ failures = <<>>
  /\ pageParsingResults = <<>>
  /\ captureTimes = <<>>
  /\ extracted = <<>>
  /\ abortAt = <<>>
  /\ urlIndex = 0
  /\ webResults = <<>>

Init ==
  /\ Fresh
  /\ pagination = <<>>
  /\ urls = <<>>
  /\ pc = "NotStarted"
  /\ files = <<>>
  /\ allAds = <<>>

\* init(): puppeteer.launch
InitBrowser ==
  /\ pc = "NotStarted"
  /\ browser' = TRUE
  /\ UNCHANGED <<openPages, pc, cfg, env, error, log, failures>>
  /\ UNCHANGED downloadVars
  /\ UNCHANGED parseVars
  /\ UNCHANGED otherVars

\* close()
CloseBrowser ==
  /\ pc = "NotStarted"
  /\ browser' = FALSE
  /\ UNCHANGED <<openPages, pc, cfg, env, error, log, failures>>
  /\ UNCHANGED downloadVars
  /\ UNCHANGED parseVars
  /\ UNCHANGED otherVars

\* the guard of every operation: if (!this.browser) throw new Error(...)
NotInitialized_never(b) == FALSE

NotInitialized(b) == ~b

\* downloadAndParseMarketplace(searchParams, config) is called; the guard
\* if (!this.browser) throw new Error("Browser not initialized...")
Call ==
  /\ pc = "NotStarted"
  /\ \E c \in CfgMaxPages, e \in EnvMaxPages : cfg' = c /\ env' = e
  /\ IF NotInitialized(browser)
     THEN pc' = "Raised" /\ error' = "BrowserNotInitialized"
     ELSE pc' = "NewPage" /\ error' = "none"
  /\ UNCHANGED <<browser, openPages, log, failures>>
  /\ UNCHANGED downloadVars
  /\ UNCHANGED parseVars
  /\ UNCHANGED otherVars

\* const page = await this.browser.newPage()
NewPageOk ==
  /\ pc = "NewPage"
  /\ openPages' = openPages + 1
  /\ pc' = "DetectingPageCount"
  /\ UNCHANGED <<browser, cfg, env, error, log, failures>>
  /\ UNCHANGED downloadVars
  /\ UNCHANGED parseVars
  /\ UNCHANGED otherVars

\* newPage() rejects: outside the try block, nothing to close
NewPageFail ==
  /\ pc = "NewPage"
  /\ pc' = "Raised"
  /\ error' = "RendererError"
  /\ failures' = Append(failures, Event("newPage", 0))
  /\ UNCHANGED <<browser, openPages, cfg, env, log>>
  /\ UNCHANGED downloadVars
  /\ UNCHANGED parseVars
  /\ UNCHANGED otherVars

\* the link page numbers and pagination-text numbers page 1 may show
LinkPageSets == SUBSET (2..MaxLinkPage)
TextNumberSeqs == {<<>>, <<0>>, <<1, MaxLinkPage>>, <<2, PageCeiling + 1>>}

\* page.goto(baseUrl), the 3 s wait, page.evaluate and the page limit
DetectOk ==
  /\ pc = "DetectingPageCount"
  /\ \E links \in LinkPageSets, text \in TextNumberSeqs :
       /\ maxPage' = DetectMaxPage(links, text)
       /\ totalPages' = MathMin(DetectMaxPage(links, text),
                                MaxPagesToScrape(cfg, env))
  /\ pageNum' = 1
  /\ pc' = "Loop"
  /\ log' = Append(log, Event("detect", 0))
  /\ UNCHANGED <<browser, openPages, cfg, env, error, failures,
                 filePaths, files, inFlight>>
  /\ UNCHANGED parseVars
  /\ UNCHANGED otherVars

\* setUserAgent, goto or evaluate rejects while detecting the page count
DetectFail ==
  /\ pc = "DetectingPageCount"
  /\ error' = "RendererError"
  /\ failures' = Append(failures, Event("detect", 0))
  /\ pc' = "Finally"
  /\ UNCHANGED <<browser, openPages, cfg, env, log>>
  /\ UNCHANGED downloadVars
  /\ UNCHANGED parseVars
  /\ UNCHANGED otherVars

\* for (...; pageNum <= totalPages; ...): page.goto(pageUrl) is issued
StartFetch ==
  /\ pc = "Loop"
  /\ LessEq(pageNum, totalPages)
  /\ inFlight' = inFlight + 1
  /\ pc' = "FetchingPage"
  /\ log' = Append(log, Event("fetchStart", pageNum))
  /\ UNCHANGED <<browser, openPages, cfg, env, error, failures,
                 maxPage, totalPages, pageNum, filePaths, files>>
  /\ UNCHANGED parseVars
  /\ UNCHANGED otherVars

\* the loop condition fails: the try block ends normally
ExitLoop ==
  /\ pc = "Loop"
  /\ ~LessEq(pageNum, totalPages)
  /\ pc' = "Finally"
  /\ UNCHANGED <<browser, openPages, cfg, env, error, log, failures>>
  /\ UNCHANGED downloadVars
  /\ UNCHANGED parseVars
  /\ UNCHANGED otherVars

\* pageNum++
NextPage_skip(n) == n + 2

NextPage(n) == n + 1

\* if (pageNum < totalPages) await the 1000 ms delay
NeedsDelay_never(n, total) == FALSE

NeedsDelay(n, total) == Less(n, total)

\* goto, the waits, page.content(), writeFileSync and filePaths.push succeed
FetchOk ==
  /\ pc = "FetchingPage"
  /\ \E f \in SessionPages : files' = Append(files, f)
  /\ filePaths' = Append(filePaths, pageNum)
  /\ inFlight' = inFlight - 1
  /\ log' = Append(log, Event("fetchEnd", pageNum))
  /\ IF NeedsDelay(pageNum, totalPages)
     THEN pc' = "Delay" /\ pageNum' = pageNum
     ELSE pc' = "Loop" /\ pageNum' = NextPage(pageNum)
  /\ UNCHANGED <<browser, openPages, cfg, env, error, failures,
                 maxPage, totalPages>>
  /\ UNCHANGED parseVars
  /\ UNCHANGED otherVars

\* goto, scrollToBottom or page.content() rejects (network, timeout,
\* navigation)
FetchFail ==
  /\ pc = "FetchingPage"
  /\ inFlight' = inFlight - 1
  /\ error' = "RendererError"
  /\ failures' = Append(failures, Event("fetch", pageNum))
  /\ log' = Append(log, Event("fetchFail", pageNum))
  /\ pc' = "Finally"
  /\ UNCHANGED <<browser, openPages, cfg, env,
                 maxPage, totalPages, pageNum, filePaths, files>>
  /\ UNCHANGED parseVars
  /\ UNCHANGED otherVars

\* the page was fetched but writeFileSync throws
SaveFail ==
  /\ pc = "FetchingPage"
  /\ inFlight' = inFlight - 1
  /\ error' = "WriteError"
  /\ failures' = Append(failures, Event("save", pageNum))
  /\ log' = Append(log, Event("fetchEnd", pageNum))
  /\ pc' = "Finally"
  /\ UNCHANGED <<browser, openPages, cfg, env,
                 maxPage, totalPages, pageNum, filePaths, files>>
  /\ UNCHANGED parseVars
  /\ UNCHANGED otherVars

\* the delay between pages elapses
Delay ==
  /\ pc = "Delay"
  /\ log' = Append(log, Event("delay", pageNum))
  /\ pageNum' = NextPage(pageNum)
  /\ pc' = "Loop"
  /\ UNCHANGED <<browser, openPages, cfg, env, error, failures,
                 maxPage, totalPages, filePaths, files, inFlight>>
  /\ UNCHANGED parseVars
  /\ UNCHANGED otherVars

\* catch (error) { console.error(...); throw error; }
CatchRethrows_swallow == FALSE

CatchRethrows == TRUE

\* finally { await page.close() }, then the pending exception leaves
\* downloadMarketplaceHTML and downloadAndParseMarketplace, or the download
\* result is returned and the parse loop starts
PageClosed_leftOpen(n) == n

PageClosed(n) == n - 1

ClosePage ==
  /\ pc = "Finally"
  /\ openPages' = PageClosed(openPages)
  /\ IF error # "none" /\ CatchRethrows
     THEN pc' = "Raised" /\ error' = error
     ELSE pc' = "ParsingPage" /\ error' = "none"
  /\ UNCHANGED <<browser, cfg, env, log, failures>>
  /\ UNCHANGED downloadVars
  /\ UNCHANGED parseVars
  /\ UNCHANGED otherVars

\* allAds = allAds.concat(pageParsingResult.extractedAds)
ConcatAds_overwrite(ads, pageAds) == pageAds

ConcatAds(ads, pageAds) == ads \o pageAds

\* one iteration of the parse loop: fs.statSync, parseHtmlFile and the
\* accumulation.  readable: whether readFileSync can still read the file.
\* the rest of the iteration once parseHtmlFile has ended as r
Accumulate(r) ==
  IF r.threw
  THEN /\ pc' = "Raised"
       /\ error' = "ReadError"
       /\ UNCHANGED <<i, allAds, totalAdsFound, totalParsingTime,
                      pageResults, pageParsingResults>>
  ELSE /\ pc' = pc
       /\ error' = error
       /\ pageParsingResults' = Append(pageParsingResults, r.value)
       /\ allAds' = ConcatAds(allAds, r.value.extractedAds)
       /\ totalAdsFound' = totalAdsFound + r.value.stats.totalAdsFound
       /\ totalParsingTime' = totalParsingTime + r.value.stats.parsingTimeMs
       /\ pageResults' =
            Append(pageResults,
                   [page |-> i + 1,
                    ads |-> r.value.stats.successfullyParsed,
                    fileName |-> filePaths[i + 1]])
       /\ i' = i + 1

ParsePage ==
  /\ pc = "ParsingPage"
  /\ i < Len(filePaths)
  /\ \E readable \in BOOLEAN, elapsed \in ElapsedTimes :
       /\ failures' = IF readable THEN failures
                      ELSE Append(failures, Event("read", i + 1))
       /\ Accumulate(parseHtmlFile([readable |-> readable,
                                    htmlLength |-> files[i + 1].htmlLength,
                                    containers |-> files[i + 1].containers],
                                   Now, elapsed))
  /\ log' = Append(log, Event("parse", i + 1))
  /\ totalHtmlSize' = totalHtmlSize + files[i + 1].htmlLength
  /\ captureTimes' = Append(captureTimes, Now)
  /\ UNCHANGED <<browser, openPages, cfg, env, combinedResult, jsonFile,
                 extracted>>
  /\ UNCHANGED downloadVars
  /\ UNCHANGED otherVars

\* fs.statSync(filePath) throws (the saved file is gone or unreadable):
\* nothing catches it
StatFail ==
  /\ pc = "ParsingPage"
  /\ i < Len(filePaths)
  /\ error' = "StatError"
  /\ failures' = Append(failures, Event("stat", i + 1))
  /\ pc' = "Raised"
  /\ UNCHANGED <<browser, openPages, cfg, env, log>>
  /\ UNCHANGED downloadVars
  /\ UNCHANGED parseVars
  /\ UNCHANGED otherVars

\* the parse loop is over: const combinedResult = {...}
Aggregate ==
  /\ pc = "ParsingPage"
  /\ i >= Len(filePaths)
  /\ combinedResult' =
       <<[success |-> TRUE,
          extractedAds |-> allAds,
          errors |-> <<>>,
          warnings |-> <<>>,
          stats |-> [totalAdsFound |-> totalAdsFound,
                     successfullyParsed |-> Len(allAds),
                     failedToParse |-> totalAdsFound - Len(allAds),
                     parsingTimeMs |-> totalParsingTime,
                     htmlSizeKb |-> RoundKb(totalHtmlSize)]]>>
  /\ pc' = "Aggregating"
  /\ log' = Append(log, Event("aggregate", 0))
  /\ UNCHANGED <<browser, openPages, cfg, env, error, failures, i, allAds,
                 totalAdsFound, totalParsingTime, totalHtmlSize, pageResults,
                 jsonFile, pageParsingResults, captureTimes, extracted>>
  /\ UNCHANGED downloadVars
  /\ UNCHANGED otherVars

\* if (allAds.length > 0) await saveAdsToJson(allAds, ...), then
\* return combinedResult.  combinedResult.extractedAds is the allAds array
\* itself, so it shows whatever the call does to its argument.
SaveJson ==
  /\ pc = "Aggregating"
  /\ Len(allAds) > 0
  /\ jsonFile' = <<JsonData(allAds, totalPages, pageResults)>>
  /\ allAds' = AdsAfterSort(allAds)
  /\ combinedResult' =
       <<[combinedResult[1] EXCEPT !.extractedAds = AdsAfterSort(allAds)]>>
  /\ pc' = "Done"
  /\ log' = Append(log, Event("done", 0))
  /\ UNCHANGED <<browser, openPages, cfg, env, error, failures, i,
                 totalAdsFound, totalParsingTime, totalHtmlSize, pageResults,
                 pageParsingResults, captureTimes, extracted>>
  /\ UNCHANGED downloadVars
  /\ UNCHANGED otherVars

\* writeFileSync(outputPath, ...) throws inside saveAdsToJson
SaveJsonFail ==
  /\ pc = "Aggregating"
  /\ Len(allAds) > 0
  /\ error' = "WriteError"
  /\ failures' = Append(failures, Event("saveJson", 0))
  /\ pc' = "Raised"
  /\ UNCHANGED <<browser, openPages, cfg, env, log>>
  /\ UNCHANGED downloadVars
  /\ UNCHANGED parseVars
  /\ UNCHANGED otherVars

\* no ad was extracted: return combinedResult without saving
ReturnEmpty ==
  /\ pc = "Aggregating"
  /\ Len(allAds) = 0
  /\ pc' = "Done"
  /\ log' = Append(log, Event("done", 0))
  /\ UNCHANGED <<browser, openPages, cfg, env, error, failures>>
  /\ UNCHANGED downloadVars
  /\ UNCHANGED parseVars
  /\ UNCHANGED otherVars

Next ==
  \/ InitBrowser
  \/ CloseBrowser
  \/ Call
  \/ NewPageOk
  \/ NewPageFail
  \/ DetectOk
  \/ DetectFail
  \/ StartFetch
  \/ ExitLoop
  \/ FetchOk
  \/ FetchFail
  \/ SaveFail
  \/ Delay
  \/ ClosePage
  \/ ParsePage
  \/ StatFail
  \/ Aggregate
  \/ SaveJson
  \/ SaveJsonFail
  \/ ReturnEmpty

Spec == Init /\ [][Next]_vars

(***************************************************************************)
(* The session with a caller that may ask to abort it.  The request is an  *)
(* event of the environment: downloadMarketplaceHTML takes searchParams    *)
(* and config only, and no statement of its page loop reads a              *)
(* cancellation flag, so the request changes nothing the code looks at.    *)
(***************************************************************************)
\* the caller asks to abort while page pageNum is fetched or its delay runs
RequestAbort ==
  /\ pc \in {"FetchingPage", "Delay"}
  /\ abortAt = <<>>
  /\ abortAt' = <<pageNum>>
  /\ UNCHANGED <<browser, openPages, pc, cfg, env, error, log, failures,
                 pagination, urls, urlIndex, webResults>>
  /\ UNCHANGED downloadVars
  /\ UNCHANGED parseVars

NextAbort == Next \/ RequestAbort

SpecAbort == Init /\ [][NextAbort]_vars

(***************************************************************************)
(* HtmlParser.parseHtmlFile called on its own, on any page file.           *)
(***************************************************************************)
ParseFiles ==
  {[readable |-> r, htmlLength |-> 1024 * (1 + Len(cs)), containers |-> cs] :
     r \in BOOLEAN, cs \in SeqsUpTo(Containers, MaxContainers)}

InitParse ==
  /\ Fresh
  /\ pagination = <<>>
  /\ urls = <<>>
  /\ pc = "ParseCall"
  /\ \E f \in ParseFiles : files = <<f>>
  /\ allAds = <<>>

\* r is how the call ended
ParseEnded(r) ==
  IF r.threw
  THEN pc' = "Raised" /\ error' = "ReadError" /\ UNCHANGED pageParsingResults
  ELSE /\ pc' = "Parsed"
       /\ error' = error
       /\ pageParsingResults' = <<r.value>>

\* await htmlParser.parseHtmlFile(filePath)
ParseHtmlFileCall ==
  /\ pc = "ParseCall"
  /\ \E elapsed \in ElapsedTimes :
       ParseEnded(parseHtmlFile(files[1], Now, elapsed))
  /\ captureTimes' = <<Now>>
  /\ UNCHANGED <<browser, openPages, cfg, env, log, failures, i, allAds,
                 totalAdsFound, totalParsingTime, totalHtmlSize, pageResults,
                 combinedResult, jsonFile, extracted>>
  /\ UNCHANGED downloadVars
  /\ UNCHANGED otherVars

NextParse == ParseHtmlFileCall

SpecParse == InitParse /\ [][NextParse]_vars

(***************************************************************************)
(* HtmlParser.saveAdsToJson called on its own, on any list of ads the      *)
(* builder can produce.                                                    *)
(***************************************************************************)
BuiltAds ==
  {parseAdElement(c, Now).ad :
     c \in {x \in Containers : parseAdElement(x, Now).kind = "ad"}}

InitSort ==
  /\ Fresh
  /\ pagination = <<>>
  /\ urls = <<>>
  /\ pc = "SaveCall"
  /\ files = <<>>
  /\ allAds \in SeqsUpTo(BuiltAds, MaxSortLen)

\* await htmlParser.saveAdsToJson(ads, outputPath)
SaveAdsToJsonCall ==
  /\ pc = "SaveCall"
  /\ jsonFile' = <<JsonData(allAds, <<1>>, <<>>)>>
  /\ allAds' = AdsAfterSort(allAds)
  /\ pc' = "Saved"
  /\ UNCHANGED <<browser, openPages, cfg, env, error, log, failures, i,
                 totalAdsFound, totalParsingTime, totalHtmlSize, pageResults,
                 combinedResult, pageParsingResults, captureTimes, extracted>>
  /\ UNCHANGED downloadVars
  /\ UNCHANGED otherVars

NextSort == SaveAdsToJsonCall

SpecSort == InitSort /\ [][NextSort]_vars

(***************************************************************************)
(* HtmlParser.parseAdElement called on its own, on one container, at any   *)
(* capture time.                                                           *)
(***************************************************************************)
\* the decimal digits of n
RECURSIVE NumText(_)
NumText(n) ==
  IF n < 10 THEN <<DigitChars[n + 1]>>
  ELSE NumText(n \div 10) \o <<DigitChars[(n % 10) + 1]>>

\* the unit words of the posted text, in several letter cases, with the
\* unit they name
UnitWords ==
  {[text |-> <<"d", "a", "n">>, kind |-> "day"],
   [text |-> <<"d", "a", "n", "a">>, kind |-> "day"],
   [text |-> <<"D", "A", "N", "A">>, kind |-> "day"],
   [text |-> <<"s", "a", "t">>, kind |-> "hour"],
   [text |-> <<"s", "a", "t", "i">>, kind |-> "hour"],
   [text |-> <<"S", "a", "t", "i">>, kind |-> "hour"],
   [text |-> <<"m", "i", "n", "u", "t">>, kind |-> "minute"],
   [text |-> <<"m", "i", "n", "u", "t", "a">>, kind |-> "minute"]}

\* posted texts "pre N <unit>"
PostedForms ==
  [n : 0..MaxAge, unit : UnitWords, gap : {<<" ">>, <<" ", " ">>}]

PostedText(f) ==
  <<"p", "r", "e">> \o f.gap \o NumText(f.n) \o <<" ">> \o f.unit.text

\* posted texts without the pattern
OtherPostedTexts ==
  {<<>>,
   <<"j", "u", "c", "e">>,
   <<"p", "r", "e", " ", "3", "d", "a", "n", "a">>,
   <<"p", "r", "e", " ", "d", "a", "n", "a">>,
   <<"3", " ", "d", "a", "n", "a">>,
   <<"p", "r", "e", " ", "3", " ", "g", "o", "d">>}

\* the numbers of the price texts, with their value in thousandths
NumberForms ==
  {[text |-> <<"0">>, value |-> 0],
   [text |-> <<"5">>, value |-> 5000],
   [text |-> <<"1", "5", "0", "0">>, value |-> 1500000],
   [text |-> <<"7", ".", "2", "5">>, value |-> 7250]}

\* the currency tokens of the price texts, with the currency they stand for
TokenForms ==
  {[text |-> <<"d", "i", "n">>, currency |-> <<"R", "S", "D">>],
   [text |-> <<"D", "I", "N">>, currency |-> <<"R", "S", "D">>],
   [text |-> <<"D", "i", "n">>, currency |-> <<"R", "S", "D">>],
   [text |-> <<"r", "s", "d">>, currency |-> <<"R", "S", "D">>],
   [text |-> <<"e", "u", "r">>, currency |-> <<"E", "U", "R">>],
   [text |-> <<"E", "U", "R">>, currency |-> <<"E", "U", "R">>],
   [text |-> <<"u", "s", "d">>, currency |-> <<"U", "S", "D">>],
   [text |-> <<"$">>, currency |-> <<"$">>],
   [text |-> <<"U+20AC">>, currency |-> <<"U+20AC">>]}

\* price texts <number><optional white space><currency token>, with white
\* space around them or not
PriceForms ==
  [number : NumberForms, gap : {<<>>, <<" ">>, <<"\t", " ">>},
   token : TokenForms, pad : {<<>>, <<" ">>}]

PriceText(f) == f.pad \o f.number.text \o f.gap \o f.token.text \o f.pad

\* price texts without the pattern, with their white space collapsed and
\* trimmed
OtherPriceTexts ==
  {[text |-> <<>>, clean |-> <<>>],
   [text |-> <<"D", "o", "g", "o", "v", "o", "r">>,
    clean |-> <<"D", "o", "g", "o", "v", "o", "r">>],
   [text |-> <<" ", "p", "o", " ", "\n", "d", "o", "g">>,
    clean |-> <<"p", "o", " ", "d", "o", "g">>],
   [text |-> <<"1", "2">>, clean |-> <<"1", "2">>],
   [text |-> <<"d", "i", "n">>, clean |-> <<"d", "i", "n">>],
   [text |-> <<"1", "2", " ", "k", "n">>, clean |-> <<"1", "2", " ", "k", "n">>]}

HrefAbs == <<"h", "t", "t", "p", ":", "/", "/", "x", "/", "o", "g", "l", "a", "s", "/", "2">>

\* "https://x/3", a path that begins with the letters http ("httpx/3") and
\* an absolute URL with its scheme in capitals ("HTTP://x/3")
HrefHttps == <<"h", "t", "t", "p", "s", ":", "/", "/", "x", "/", "3">>
HrefHttpx == <<"h", "t", "t", "p", "x", "/", "3">>
HrefUpper == <<"H", "T", "T", "P", ":", "/", "/", "x", "/", "3">>
HrefPlain == <<"o", "g", "l", "a", "s", "/", "3">>

Hrefs == {HrefRel, HrefAbs, HrefHttps, HrefHttpx, HrefUpper, HrefPlain}

\* posted texts with two "pre N unit" fragments
TwoFragmentTexts ==
  {PostedText(f) \o <<" ">> \o PostedText(g) :
     f \in {[n |-> 2, unit |-> [text |-> <<"s", "a", "t", "i">>, kind |-> "hour"],
             gap |-> <<" ">>],
            [n |-> 5, unit |-> [text |-> <<"d", "a", "n", "a">>, kind |-> "day"],
             gap |-> <<" ">>]},
     g \in {[n |-> 2, unit |-> [text |-> <<"s", "a", "t", "i">>, kind |-> "hour"],
             gap |-> <<" ">>],
            [n |-> 5, unit |-> [text |-> <<"d", "a", "n", "a">>, kind |-> "day"],
             gap |-> <<" ">>],
            [n |-> 7, unit |-> [text |-> <<"d", "a", "n">>, kind |-> "day"],
             gap |-> <<" ">>]}}

\* the container of the scenario: "PS5 Bundle", "12.500 din", "Beograd",
\* "pre 3 dana"
cPS5 ==
  Container(<<"1", "0">>,
            <<"P", "S", "5", " ", "B", "u", "n", "d", "l", "e">>,
            HrefRel,
            <<"1", "2", ".", "5", "0", "0", " ", "d", "i", "n">>,
            <<"B", "e", "o", "g", "r", "a", "d">>,
            Pre3Dana, FALSE)

\* the texts of a counter widget: "", "7", " 12 ", "abc", "0", "-3", "12abc"
CounterTexts ==
  {<<>>, <<"7">>, <<" ", "1", "2", " ">>, <<"a", "b", "c">>, <<"0">>,
   <<"-", "3">>, <<"1", "2", "a", "b", "c">>}

\* a container with no, one, two or three counter widgets
CounterContainers ==
  {WithCounters(Container(<<"m">>, <<"A">>, HrefRel, PriceDin, <<>>, Pre3Dana,
                          FALSE), cs) :
     cs \in SeqsUpTo(CounterTexts, 2)
             \cup {<<<<"7">>, <<"0">>, <<"9">>>>}}

\* containers that differ in the required fields only
RequiredFieldContainers ==
  {Container(<<"r">>, title, href, price, <<>>, Pre3Dana, FALSE) :
     title \in {<<"A">>, <<>>, <<" ">>},
     href \in {HrefRel, HrefAbs, <<>>},
     price \in {PriceDin, <<>>, <<" ">>, <<"D", "o", "g", "o", "v", "o", "r">>}}

FieldContainers ==
  {Container(<<"p">>, <<"A">>, HrefRel, PriceText(f), <<>>, Pre3Dana, FALSE) :
     f \in PriceForms}
  \cup {Container(<<"p">>, <<"A">>, HrefRel, o.text, <<>>, Pre3Dana, FALSE) :
          o \in OtherPriceTexts}
  \cup {Container(<<"t">>, <<"A">>, HrefRel, PriceDin, <<>>, PostedText(f), FALSE) :
          f \in PostedForms}
  \cup {Container(<<"t">>, <<"A">>, HrefRel, PriceDin, <<>>, text, FALSE) :
          text \in OtherPostedTexts}
  \cup {Container(<<"t">>, <<"A">>, HrefRel, PriceDin, <<>>, text, FALSE) :
          text \in TwoFragmentTexts}
  \cup {Container(<<"u">>, <<"A">>, href, PriceDin, <<>>, Pre3Dana, FALSE) :
          href \in Hrefs}
  \cup CounterContainers
  \cup RequiredFieldContainers
  \cup {cPS5}

\* new Date() of a call
CaptureTimes == {Now, Now + 90}

InitElement ==
  /\ Fresh
  /\ pagination = <<>>
  /\ urls = <<>>
  /\ pc = "ElementCall"
  /\ \E c \in FieldContainers : files = <<PageFile(<<c>>)>>
  /\ allAds = <<>>

\* this.parseAdElement($, element)
ParseAdElementCall ==
  /\ pc = "ElementCall"
  /\ \E t \in CaptureTimes :
       /\ captureTimes' = <<t>>
       /\ extracted' = <<ElementLocals(files[1].containers[1], t)>>
  /\ pc' = "Extracted"
  /\ UNCHANGED <<browser, openPages, cfg, env, error, log, failures, i, allAds,
                 totalAdsFound, totalParsingTime, totalHtmlSize, pageResults,
                 combinedResult, jsonFile, pageParsingResults>>
  /\ UNCHANGED downloadVars
  /\ UNCHANGED otherVars

NextElement == ParseAdElementCall

SpecElement == InitElement /\ [][NextElement]_vars

(***************************************************************************)
(* The operations of a MarketplaceScraper called one after another in any  *)
(* order: init, close, downloadAndParseMarketplace (above),                *)
(* scrapeMarketplace of the single-page scraper and scrapeItemDetails.     *)
(***************************************************************************)
\* scrapeMarketplace(searchParams, config) is called: the guard
ScrapeMarketplaceCall ==
  /\ pc = "NotStarted"
  /\ IF NotInitialized(browser)
     THEN pc' = "Raised" /\ error' = "BrowserNotInitialized"
     ELSE pc' = "ScrapeNewPage" /\ error' = "none"
  /\ UNCHANGED <<browser, openPages, cfg, env, log, failures>>
  /\ UNCHANGED downloadVars
  /\ UNCHANGED parseVars
  /\ UNCHANGED otherVars

\* const page = await this.browser.newPage(), before the try block
ScrapeNewPageOk ==
  /\ pc = "ScrapeNewPage"
  /\ openPages' = openPages + 1
  /\ pc' = "Scraping"
  /\ UNCHANGED <<browser, cfg, env, error, log, failures>>
  /\ UNCHANGED downloadVars
  /\ UNCHANGED parseVars
  /\ UNCHANGED otherVars

ScrapeNewPageFail ==
  /\ pc = "ScrapeNewPage"
  /\ error' = "RendererError"
  /\ failures' = Append(failures, Event("newPage", 0))
  /\ pc' = "Raised"
  /\ UNCHANGED <<browser, openPages, cfg, env, log>>
  /\ UNCHANGED downloadVars
  /\ UNCHANGED parseVars
  /\ UNCHANGED otherVars

\* the try block runs to its end: the items are collected
ScrapeMarketplaceOk ==
  /\ pc = "Scraping"
  /\ log' = Append(log, Event("scraped", 0))
  /\ pc' = "ScrapeFinally"
  /\ UNCHANGED <<browser, openPages, cfg, env, error, failures>>
  /\ UNCHANGED downloadVars
  /\ UNCHANGED parseVars
  /\ UNCHANGED otherVars

\* setUserAgent, goto, waitForSelector or evaluate rejects:
\* catch (error) { console.error(...); throw error; }
ScrapeMarketplaceFail ==
  /\ pc = "Scraping"
  /\ error' = "RendererError"
  /\ failures' = Append(failures, Event("scrape", 0))
  /\ pc' = "ScrapeFinally"
  /\ UNCHANGED <<browser, openPages, cfg, env, log>>
  /\ UNCHANGED downloadVars
  /\ UNCHANGED parseVars
  /\ UNCHANGED otherVars

\* finally { await page.close() }, then return items or the rethrown error
ScrapeClosePage ==
  /\ pc = "ScrapeFinally"
  /\ openPages' = PageClosed(openPages)
  /\ pc' = IF error # "none" THEN "Raised" ELSE "Done"
  /\ UNCHANGED <<browser, cfg, env, error, log, failures>>
  /\ UNCHANGED downloadVars
  /\ UNCHANGED parseVars
  /\ UNCHANGED otherVars

\* scrapeItemDetails(itemUrl) is called: the guard
ScrapeItemDetailsCall ==
  /\ pc = "NotStarted"
  /\ IF NotInitialized(browser)
     THEN pc' = "Raised" /\ error' = "BrowserNotInitialized"
     ELSE pc' = "DetailsNewPage" /\ error' = "none"
  /\ UNCHANGED <<browser, openPages, cfg, env, log, failures>>
  /\ UNCHANGED downloadVars
  /\ UNCHANGED parseVars
  /\ UNCHANGED otherVars

DetailsNewPageOk ==
  /\ pc = "DetailsNewPage"
  /\ openPages' = openPages + 1
  /\ pc' = "DetailsLoading"
  /\ UNCHANGED <<browser, cfg, env, error, log, failures>>
  /\ UNCHANGED downloadVars
  /\ UNCHANGED parseVars
  /\ UNCHANGED otherVars

DetailsNewPageFail ==
  /\ pc = "DetailsNewPage"
  /\ error' = "RendererError"
  /\ failures' = Append(failures, Event("newPage", 0))
  /\ pc' = "Raised"
  /\ UNCHANGED <<browser, openPages, cfg, env, log>>
  /\ UNCHANGED downloadVars
  /\ UNCHANGED parseVars
  /\ UNCHANGED otherVars

\* goto and evaluate succeed: the details are filled in
DetailsOk ==
  /\ pc = "DetailsLoading"
  /\ log' = Append(log, Event("details", 0))
  /\ pc' = "DetailsFinally"
  /\ UNCHANGED <<browser, openPages, cfg, env, error, failures>>
  /\ UNCHANGED downloadVars
  /\ UNCHANGED parseVars
  /\ UNCHANGED otherVars

\* goto or evaluate rejects: catch (error) { console.error(...) } keeps
\* no exception pending
DetailsFail ==
  /\ pc = "DetailsLoading"
  /\ failures' = Append(failures, Event("details", 0))
  /\ pc' = "DetailsFinally"
  /\ UNCHANGED <<browser, openPages, cfg, env, error, log>>
  /\ UNCHANGED downloadVars
  /\ UNCHANGED parseVars
  /\ UNCHANGED otherVars

\* finally { await page.close() }, then return details
DetailsClosePage ==
  /\ pc = "DetailsFinally"
  /\ openPages' = PageClosed(openPages)
  /\ pc' = "Done"
  /\ UNCHANGED <<browser, cfg, env, error, log, failures>>
  /\ UNCHANGED downloadVars
  /\ UNCHANGED parseVars
  /\ UNCHANGED otherVars

\* the caller has the value or the exception of the operation; the
\* operation's locals and the histories of the call are gone, the browser
\* and its pages are what the operation left
Return ==
  /\ pc \in {"Done", "Raised"}
  /\ pc' = "NotStarted"
  /\ cfg' = <<>>
  /\ env' = <<>>
  /\ error' = "none"
  /\ log' = <<>>
  /\ failures' = <<>>
  /\ maxPage' = 0
  /\ totalPages' = <<1>>
  /\ pageNum' = 0
  /\ filePaths' = <<>>
  /\ files' = <<>>
  /\ inFlight' = 0
  /\ i' = 0
  /\ allAds' = <<>>
  /\ totalAdsFound' = 0
  /\ totalParsingTime' = 0
  /\ totalHtmlSize' = 0
  /\ pageResults' = <<>>
  /\ combinedResult' = <<>>
  /\ jsonFile' = <<>>
  /\ pageParsingResults' = <<>>
  /\ captureTimes' = <<>>
  /\ extracted' = <<>>
  /\ UNCHANGED <<browser, openPages>>
  /\ UNCHANGED otherVars

NextOps ==
  \/ Next
  \/ ScrapeMarketplaceCall
  \/ ScrapeNewPageOk
  \/ ScrapeNewPageFail
  \/ ScrapeMarketplaceOk
  \/ ScrapeMarketplaceFail
  \/ ScrapeClosePage
  \/ ScrapeItemDetailsCall
  \/ DetailsNewPageOk
  \/ DetailsNewPageFail
  \/ DetailsOk
  \/ DetailsFail
  \/ DetailsClosePage
  \/ Return

SpecOps == Init /\ [][NextOps]_vars

(***************************************************************************)
(* The page.evaluate callback of downloadMarketplaceHTML on its own: the   *)
(* page count it returns for the pagination links and the pagination text  *)
(* page 1 shows.                                                           *)
(***************************************************************************)
\* the page=<n> values the links may carry
LinkValues == {2, MaxLinkPage, PageCeiling, PageCeiling + 1}

\* the numbers the pagination text may hold, in text order
PaginationTexts ==
  {<<>>, <<0>>, <<2>>, <<1, MaxLinkPage>>, <<PageCeiling>>,
   <<2, PageCeiling + 1>>, <<PageCeiling + 1, 2>>, <<PageCeiling + 50>>}

Paginations == [links : SUBSET LinkValues, text : PaginationTexts]

InitDetect ==
  /\ Fresh
  /\ pc = "EvaluateCall"
  /\ files = <<>>
  /\ allAds = <<>>
  /\ urls = <<>>
  /\ \E p \in Paginations : pagination = <<p>>

\* totalPages = await page.evaluate(() => { ... return maxPage; })
EvaluatePagination ==
  /\ pc = "EvaluateCall"
  /\ maxPage' = DetectMaxPage(pagination[1].links, pagination[1].text)
  /\ pc' = "Evaluated"
  /\ UNCHANGED <<browser, openPages, cfg, env, error, log, failures,
                 totalPages, pageNum, filePaths, files, inFlight>>
  /\ UNCHANGED parseVars
  /\ UNCHANGED otherVars

NextDetect == EvaluatePagination

SpecDetect == InitDetect /\ [][NextDetect]_vars

(***************************************************************************)
(* WebScraper.scrapeMultiple and the scrape calls it awaits.  A URL is a   *)
(* letter; a ScrapedData is [url]: title, description and timestamp depend *)
(* on the page served and are left out.  log holds a "request" event when  *)
(* axios.get is issued and a "delay" event when the 1000 ms wait elapses.  *)
(***************************************************************************)
Urls == {"a", "b", "c"}

UrlLists == SeqsUpTo(Urls, MaxUrls)

InitWeb ==
  /\ Fresh
  /\ pc = "WebCall"
  /\ files = <<>>
  /\ allAds = <<>>
  /\ pagination = <<>>
  /\ urls \in UrlLists

\* const results = [] and the start of for (const url of urls)
ScrapeMultipleCall ==
  /\ pc = "WebCall"
  /\ webResults' = <<>>
  /\ urlIndex' = 1
  /\ pc' = "WebLoop"
  /\ UNCHANGED <<browser, openPages, cfg, env, error, log, failures,
                 pagination, abortAt, urls>>
  /\ UNCHANGED downloadVars
  /\ UNCHANGED parseVars

\* this.scrape(url): axios.get(url) is issued
ScrapeStart ==
  /\ pc = "WebLoop"
  /\ urlIndex <= Len(urls)
  /\ inFlight' = inFlight + 1
  /\ log' = Append(log, Event("request", urlIndex))
  /\ pc' = "WebRequest"
  /\ UNCHANGED <<browser, openPages, cfg, env, error, failures,
                 maxPage, totalPages, pageNum, filePaths, files>>
  /\ UNCHANGED parseVars
  /\ UNCHANGED otherVars

\* if (data) { results.push(data) }; data is <<>> for null
PushData_prepend(rs, data) ==
  IF data = <<>> THEN rs ELSE <<data[1]>> \o rs

PushData(rs, data) ==
  IF data = <<>> THEN rs ELSE Append(rs, data[1])

\* the try block of scrape returns the ScrapedData
ScrapeOk ==
  /\ pc = "WebRequest"
  /\ inFlight' = inFlight - 1
  /\ webResults' = PushData(webResults, <<[url |-> urls[urlIndex]]>>)
  /\ pc' = "WebDelay"
  /\ UNCHANGED <<browser, openPages, cfg, env, error, log, failures,
                 maxPage, totalPages, pageNum, filePaths, files,
                 pagination, abortAt, urls, urlIndex>>
  /\ UNCHANGED parseVars

\* axios.get rejects or cheerio throws: catch logs and returns null
ScrapeFail ==
  /\ pc = "WebRequest"
  /\ inFlight' = inFlight - 1
  /\ failures' = Append(failures, Event("scrape", urlIndex))
  /\ webResults' = PushData(webResults, <<>>)
  /\ pc' = "WebDelay"
  /\ UNCHANGED <<browser, openPages, cfg, env, error, log,
                 maxPage, totalPages, pageNum, filePaths, files,
                 pagination, abortAt, urls, urlIndex>>
  /\ UNCHANGED parseVars

\* await new Promise((resolve) => setTimeout(resolve, 1000)), then the
\* next url
ScrapeDelay ==
  /\ pc = "WebDelay"
  /\ log' = Append(log, Event("delay", urlIndex))
  /\ urlIndex' = urlIndex + 1
  /\ pc' = "WebLoop"
  /\ UNCHANGED <<browser, openPages, cfg, env, error, failures,
                 pagination, abortAt, urls, webResults>>
  /\ UNCHANGED downloadVars
  /\ UNCHANGED parseVars

\* return results
ScrapeMultipleReturn ==
  /\ pc = "WebLoop"
  /\ urlIndex > Len(urls)
  /\ pc' = "WebReturned"
  /\ UNCHANGED <<browser, openPages, cfg, env, error, log, failures>>
  /\ UNCHANGED downloadVars
  /\ UNCHANGED parseVars
  /\ UNCHANGED otherVars

NextWeb ==
  \/ ScrapeMultipleCall
  \/ ScrapeStart
  \/ ScrapeOk
  \/ ScrapeFail
  \/ ScrapeDelay
  \/ ScrapeMultipleReturn

SpecWeb == InitWeb /\ [][NextWeb]_vars

(***************************************************************************)
(* HtmlParser.parseHtmlFile called twice: on the same page file, or on a   *)
(* page file and its copy in which one container has lost its title.       *)
(***************************************************************************)
TwiceContainers == {cFresh, cHours, cUndated, cNoTitle, cThrows}

\* the page file f with the title of its k-th container removed
RemoveTitle(f, k) == [f EXCEPT !.containers[k].titleText = <<>>]

TwiceFiles ==
  {[readable |-> TRUE, htmlLength |-> 1024 * (1 + Len(cs)), containers |-> cs] :
     cs \in SeqsUpTo(TwiceContainers, MaxContainers)}

InitTwice ==
  /\ Fresh
  /\ pagination = <<>>
  /\ urls = <<>>
  /\ pc = "FirstParse"
  /\ \E f \in TwiceFiles :
       \/ files = <<f, f>>
       \/ \E k \in 1..Len(f.containers) : files = <<f, RemoveTitle(f, k)>>
  /\ allAds = <<>>

\* r is how the call ended
TwiceEnded(r, after) ==
  IF r.threw
  THEN pc' = "Raised" /\ error' = "ReadError" /\ UNCHANGED pageParsingResults
  ELSE /\ pc' = after
       /\ error' = error
       /\ pageParsingResults' = Append(pageParsingResults, r.value)

ParseTwiceCall(file, after) ==
  /\ \E t \in CaptureTimes, elapsed \in ElapsedTimes :
       /\ captureTimes' = Append(captureTimes, t)
       /\ TwiceEnded(parseHtmlFile(file, t, elapsed), after)
  /\ UNCHANGED <<browser, openPages, cfg, env, log, failures, i, allAds,
                 totalAdsFound, totalParsingTime, totalHtmlSize, pageResults,
                 combinedResult, jsonFile, extracted>>
  /\ UNCHANGED downloadVars
  /\ UNCHANGED otherVars

\* the first await htmlParser.parseHtmlFile(filePath)
ParseFirstCall ==
  /\ pc = "FirstParse"
  /\ ParseTwiceCall(files[1], "SecondParse")

\* the second one
ParseSecondCall ==
  /\ pc = "SecondParse"
  /\ ParseTwiceCall(files[2], "ParsedTwice")

NextTwice == ParseFirstCall \/ ParseSecondCall

SpecTwice == InitTwice /\ [][NextTwice]_vars

(***************************************************************************)
(* Properties.                                                             *)
(***************************************************************************)
\* the pages of the log's events of one kind, in order
PagesOf(seq, kind) ==
  [k \in 1..Len(SelectSeq(seq, LAMBDA e : e.ev = kind)) |->
     SelectSeq(seq, LAMBDA e : e.ev = kind)[k].page]

UpTo(n) == [k \in 1..n |-> k]

Happened(seq, kind) == \E k \in 1..Len(seq) : seq[k].ev = kind

SessionEnded == pc \in {"Done", "Raised"}

PerPageFailure(f) == f.ev \in {"fetch", "save", "stat", "read"}

C3_ParsedBeforeNextFetch ==
  \A a \in 1..Len(log) :
    (log[a].ev = "fetchStart" /\ log[a].page > 1)
      => \E b \in 1..(a - 1) : log[b] = Event("parse", log[a].page - 1)

PhaseRank(e) ==
  CASE e.ev = "detect" -> 1
    [] e.ev \in {"fetchStart", "fetchEnd", "fetchFail", "delay"} -> 2
    [] e.ev = "parse" -> 3
    [] e.ev = "aggregate" -> 4
    [] e.ev = "done" -> 5

\* C3 amended: a session goes NotStarted, DetectingPageCount, then
\* FetchingPage(1), ..., FetchingPage(n), then ParsingPage(1), ...,
\* ParsingPage(n), then Aggregating, then Done, with no backward
\* transition: every page is fetched before any page is parsed, pages are
\* fetched and parsed in increasing index, and the page count is detected
\* exactly once, before any fetch.
C3_PhaseOrder ==
  /\ \A a, b \in 1..Len(log) : a < b => PhaseRank(log[a]) <= PhaseRank(log[b])
  /\ log # <<>> => log[1].ev = "detect"
  /\ Len(PagesOf(log, "detect")) <= 1
  /\ PagesOf(log, "fetchStart") = UpTo(Len(PagesOf(log, "fetchStart")))
  /\ PagesOf(log, "parse") = UpTo(Len(PagesOf(log, "parse")))
  /\ pc \in {"Aggregating", "Done"} =>
       /\ PagesOf(log, "parse") = PagesOf(log, "fetchStart")
       /\ Len(PagesOf(log, "aggregate")) = 1
       /\ totalPages # <<>> /\ totalPages[1] >= 0
            => PagesOf(log, "parse") = UpTo(totalPages[1])
  /\ pc = "Done" <=> Happened(log, "done")

\* a finished session of three pages: page 3 was fetched before page 1 was
\* parsed
C3_Witness ==
  /\ pc = "Done"
  /\ PagesOf(log, "parse") = <<1, 2, 3>>
  /\ \E a, b \in 1..Len(log) :
       a < b /\ log[a] = Event("fetchEnd", 3) /\ log[b] = Event("parse", 1)

\* C4: pages are fetched one at a time in increasing index 1, 2, ...,
\* totalPages, and between the end of the fetch of page i and the start of
\* the fetch of page i+1 the inter-page delay elapses.
C4_SequentialFetchWithDelay ==
  /\ inFlight \in {0, 1}
  /\ inFlight = 1 <=> pc = "FetchingPage"
  /\ PagesOf(log, "fetchStart") = UpTo(Len(PagesOf(log, "fetchStart")))
  /\ \A a \in 1..Len(log) :
       log[a].ev = "fetchStart" =>
         /\ LessEq(log[a].page, totalPages)
         /\ a < Len(log) => /\ log[a + 1].ev \in {"fetchEnd", "fetchFail"}
                             /\ log[a + 1].page = log[a].page
         /\ log[a].page > 1 =>
              /\ log[a - 1] = Event("delay", log[a].page - 1)
              /\ log[a - 2] = Event("fetchEnd", log[a].page - 1)
  /\ (pc \in {"ParsingPage", "Aggregating", "Done"} /\ totalPages # <<>>
        /\ totalPages[1] >= 0 /\ failures = <<>>)
       => PagesOf(log, "fetchStart") = UpTo(totalPages[1])

\* the fetch of page 3 has started, after the delay that followed page 2
C4_Witness ==
  /\ pc = "FetchingPage"
  /\ pageNum = 3
  /\ log[Len(log) - 1] = Event("delay", 2)

\* the documented default of MAX_PAGES
DefaultMaxPages == 5

\* the limit the caller supplied: config.maxPages when given, else a numeric
\* MAX_PAGES, else the default
CallerLimit ==
  IF cfg # <<>> THEN cfg[1]
  ELSE IF env # <<>> /\ ParseInt(env[1]) # <<>> THEN ParseInt(env[1])[1]
  ELSE DefaultMaxPages

Min(a, b) == IF a <= b THEN a ELSE b

DownloadReturned == pc \in {"ParsingPage", "Aggregating", "Done"}

\* C5 as stated: when downloadMarketplaceHTML returns, totalPages is the
\* minimum of the detected page count and the caller's limit (also for a
\* limit of 0 and for a missing or non-numeric MAX_PAGES), and filePaths
\* holds exactly the pages 1..totalPages in order.
C5_TotalPagesIsMinOfCountAndLimit ==
  DownloadReturned =>
    /\ totalPages = <<Min(maxPage, CallerLimit)>>
    /\ filePaths = UpTo(Min(maxPage, CallerLimit))

RECURSIVE SumSeq(_)
SumSeq(ns) == IF ns = <<>> THEN 0 ELSE Head(ns) + SumSeq(Tail(ns))

\* C6: the number of ads of the combined result is the sum of the pages'
\* successfullyParsed counts and the sum of the per-page breakdown's ad
\* counts.
C6_AdCountIsSumOfPages ==
  combinedResult # <<>> =>
    /\ Len(combinedResult[1].extractedAds) =
         SumSeq([k \in 1..Len(pageParsingResults) |->
                   pageParsingResults[k].stats.successfullyParsed])
    /\ Len(combinedResult[1].extractedAds) =
         SumSeq([k \in 1..Len(pageResults) |-> pageResults[k].ads])
    /\ Len(pageParsingResults) = Len(filePaths)
    /\ Len(pageResults) = Len(filePaths)

\* three pages were parsed, two of them with ads: 2 + 0 + 1 ads
C6_Witness ==
  /\ pc = "Done"
  /\ Len(pageResults) = 3
  /\ pageResults[1].ads = 2 /\ pageResults[2].ads = 0 /\ pageResults[3].ads = 1
  /\ Len(combinedResult[1].extractedAds) = 3

RECURSIVE ConcatPages(_)
ConcatPages(results) ==
  IF results = <<>> THEN <<>>
  ELSE Head(results).extractedAds \o ConcatPages(Tail(results))

\* C7: the ad list of the combined result is the concatenation of the
\* per-page ad lists in page order, when it is built and also after
\* saveAdsToJson has sorted and written the ads.
C7_AdsAreConcatenationInPageOrder ==
  combinedResult # <<>> =>
    combinedResult[1].extractedAds = ConcatPages(pageParsingResults)

\* the session returned after saveAdsToJson wrote the ads in another order
\* than the combined result holds them
C7_Witness ==
  /\ pc = "Done"
  /\ jsonFile # <<>>
  /\ Len(pageParsingResults) >= 2
  /\ jsonFile[1].ads # combinedResult[1].extractedAds

Dated(ad) == ad.raw.metrics.postedDate # <<>>

\* C8 as stated: the list saveAdsToJson writes holds the ads of the input,
\* the dated ones first in descending postedDate, every ad without a
\* postedDate after every ad with one, ads with equal or missing dates in
\* their input order.
C8_SortedNewestFirstUndatedLast ==
  pc = "Saved" =>
    /\ Len(jsonFile[1].ads) = Len(allAds)
    /\ \A d \in {allAds[k].raw.metrics.postedDate : k \in 1..Len(allAds)} :
         SelectSeq(jsonFile[1].ads, LAMBDA x : x.raw.metrics.postedDate = d)
           = SelectSeq(allAds, LAMBDA x : x.raw.metrics.postedDate = d)
    /\ \A a, b \in 1..Len(jsonFile[1].ads) :
         a < b =>
           /\ Dated(jsonFile[1].ads[b]) => Dated(jsonFile[1].ads[a])
           /\ Dated(jsonFile[1].ads[a]) /\ Dated(jsonFile[1].ads[b]) =>
                jsonFile[1].ads[a].raw.metrics.postedDate[1]
                  >= jsonFile[1].ads[b].raw.metrics.postedDate[1]

\* C9: parseHtmlFile never throws: whatever the file (unreadable, empty,
\* with containers whose extraction raises), the call returns an
\* HtmlParsingResult.
C9_ParseHtmlFileNeverThrows ==
  /\ pc # "Raised"
  /\ pc = "Parsed" =>
       /\ Len(pageParsingResults) = 1
       /\ DOMAIN pageParsingResults[1] =
            {"success", "extractedAds", "errors", "warnings", "stats"}
       /\ pageParsingResults[1].success \in BOOLEAN

\* the call returned for a file that cannot be read
C9_Witness ==
  /\ pc = "Parsed"
  /\ ~files[1].readable
  /\ ~pageParsingResults[1].success

\* the ads of the containers the builder accepts, in container order
RECURSIVE AcceptedAds(_)
AcceptedAds(cs) ==
  IF cs = <<>> THEN <<>>
  ELSE (IF parseAdElement(Head(cs), Now).kind = "ad"
        THEN <<parseAdElement(Head(cs), Now).ad>> ELSE <<>>)
       \o AcceptedAds(Tail(cs))

\* C10: when the extraction of the container at index k raises, the page
\* result holds exactly one EXTRACTION_FAILED error with adIndex = k, the
\* containers after k are still processed, and the ads of the other
\* containers are all in the result in container order.
C10_RaisingContainerIsOneError ==
  (pc = "Parsed" /\ files[1].readable) =>
    /\ \A k \in 0..(Len(files[1].containers) - 1) :
         Cardinality({e \in 1..Len(pageParsingResults[1].errors) :
                        pageParsingResults[1].errors[e].adIndex = <<k>>})
           = IF files[1].containers[k + 1].raises THEN 1 ELSE 0
    /\ \A e \in 1..Len(pageParsingResults[1].errors) :
         /\ pageParsingResults[1].errors[e].type = "EXTRACTION_FAILED"
         /\ pageParsingResults[1].errors[e].adIndex # <<>>
         /\ pageParsingResults[1].errors[e].adIndex[1]
              < Len(files[1].containers)
    /\ pageParsingResults[1].extractedAds = AcceptedAds(files[1].containers)

\* the middle one of three containers raised: one error with adIndex 1, and
\* the ads of the first and the last container
C10_Witness ==
  /\ pc = "Parsed"
  /\ files[1].readable
  /\ files[1].containers = <<cUndated, cThrows, cFresh>>
  /\ pageParsingResults[1].errors =
       <<[type |-> "EXTRACTION_FAILED", adIndex |-> <<1>>]>>
  /\ Len(pageParsingResults[1].extractedAds) = 2

\* C11: when the page file cannot be read, parseHtmlFile returns success =
\* false, no ad, exactly one error that carries no ad index, no warning, and
\* the statistics totalAdsFound, successfullyParsed, failedToParse and
\* htmlSizeKb all 0.
C11_UnreadableFileIsOneTopLevelError ==
  (pc = "Parsed" /\ ~files[1].readable) =>
    /\ pageParsingResults[1].success = FALSE
    /\ pageParsingResults[1].extractedAds = <<>>
    /\ Len(pageParsingResults[1].errors) = 1
    /\ pageParsingResults[1].errors[1].adIndex = <<>>
    /\ pageParsingResults[1].warnings = <<>>
    /\ pageParsingResults[1].stats.totalAdsFound = 0
    /\ pageParsingResults[1].stats.successfullyParsed = 0
    /\ pageParsingResults[1].stats.failedToParse = 0
    /\ pageParsingResults[1].stats.htmlSizeKb = 0

\* the call returned for an unreadable file that holds two containers, one
\* of which would raise
C11_Witness ==
  /\ pc = "Parsed"
  /\ ~files[1].readable
  /\ files[1].containers = <<cFresh, cThrows>>
  /\ Len(pageParsingResults[1].errors) = 1

\* C12 as stated: parseAdElement returns null exactly when the extracted
\* title, the price's formatted text or the resolved URL is empty; a
\* container without an ad link (empty href), one with an empty title and
\* one with an empty price text are each rejected.
C12_NullIffRequiredFieldEmpty ==
  pc = "Extracted" =>
    /\ extracted[1].ret.kind = "null"
         <=> \/ extracted[1].title = <<>>
             \/ extracted[1].price.formatted = <<>>
             \/ extracted[1].url = <<>>
    /\ files[1].containers[1].href = <<>> => extracted[1].ret.kind = "null"
    /\ files[1].containers[1].titleText \in {<<>>, <<" ">>}
         => extracted[1].ret.kind = "null"
    /\ files[1].containers[1].priceText \in {<<>>, <<" ">>}
         => extracted[1].ret.kind = "null"

\* C13 as stated: of two pages that differ only in that one container, whose
\* ad is extracted, has lost its title, the page without the title has a
\* failedToParse greater by exactly 1 and a successfullyParsed smaller by
\* exactly 1.
C13_MissingTitleCountsAsFailure ==
  pc = "ParsedTwice" =>
    \A k \in 1..Len(files[1].containers) :
      (/\ files[2] = RemoveTitle(files[1], k)
       /\ parseAdElement(files[1].containers[k], Now).kind = "ad")
        => /\ pageParsingResults[2].stats.failedToParse
                = pageParsingResults[1].stats.failedToParse + 1
           /\ pageParsingResults[2].stats.successfullyParsed
                = pageParsingResults[1].stats.successfullyParsed - 1

\* the raw ad records of a page result, in order
RawAds(result) ==
  [k \in 1..Len(result.extractedAds) |-> result.extractedAds[k].raw]

\* the ad records of a page result without postedDate and scrapedAt
TimelessAds(result) ==
  [k \in 1..Len(result.extractedAds) |->
     [result.extractedAds[k] EXCEPT !.raw.metrics.postedDate = <<>>,
                                    !.scrapingMetadata.scrapedAt = 0]]

\* C18 as stated: two parses of the same page, at any two capture times,
\* yield ad records that are equal in every field of the raw ad record,
\* metrics.postedDate included.
C18_ReparseIsIdentical ==
  (pc = "ParsedTwice" /\ files[1] = files[2])
    => RawAds(pageParsingResults[1]) = RawAds(pageParsingResults[2])

\* C18 amended: two parses of the same page, at capture times t1 and t2,
\* yield the same errors and ad records that are equal in every field but
\* metrics.postedDate and scrapedAt; postedDate is undefined in both, or the
\* second is the first shifted by t2 - t1.
C18_ReparseDiffersByCaptureTime ==
  (pc = "ParsedTwice" /\ files[1] = files[2])
    => /\ TimelessAds(pageParsingResults[1]) = TimelessAds(pageParsingResults[2])
       /\ pageParsingResults[1].errors = pageParsingResults[2].errors
       /\ \A k \in 1..Len(pageParsingResults[1].extractedAds) :
            \/ /\ RawAds(pageParsingResults[1])[k].metrics.postedDate = <<>>
               /\ RawAds(pageParsingResults[2])[k].metrics.postedDate = <<>>
            \/ /\ RawAds(pageParsingResults[1])[k].metrics.postedDate # <<>>
               /\ RawAds(pageParsingResults[2])[k].metrics.postedDate # <<>>
               /\ RawAds(pageParsingResults[2])[k].metrics.postedDate[1]
                    - RawAds(pageParsingResults[1])[k].metrics.postedDate[1]
                    = captureTimes[2] - captureTimes[1]

\* the same page with a dated and an undated ad was parsed at two different
\* capture times
C18_Witness ==
  /\ pc = "ParsedTwice"
  /\ files[1] = files[2]
  /\ files[1].containers = <<cFresh, cUndated>>
  /\ captureTimes[1] # captureTimes[2]
  /\ RawAds(pageParsingResults[1])[1].metrics.postedDate
       # RawAds(pageParsingResults[2])[1].metrics.postedDate

\* the cleaned text of a price text <number><white space?><token>
CleanPriceText(f) ==
  f.number.text \o (IF f.gap = <<>> THEN <<>> ELSE <<" ">>) \o f.token.text

\* C14 as stated: for a price text <number><optional space><token> with a
\* token among din, rsd, eur, usd, $ and the euro sign in any letter case,
\* parsePrice returns the number as amount and the currency RSD for din, the
\* upper-cased token otherwise; for a text without such a match it returns
\* amount 0 and currency RSD; formatted is the collapsed, trimmed input.
C14_PriceAmountAndCurrency ==
  pc = "Extracted" =>
    /\ \A f \in PriceForms :
         files[1].containers[1].priceText = PriceText(f)
           => /\ extracted[1].price.amount = f.number.value
              /\ extracted[1].price.currency = f.token.currency
              /\ extracted[1].price.formatted = CleanPriceText(f)
    /\ \A o \in OtherPriceTexts :
         files[1].containers[1].priceText = o.text
           => /\ extracted[1].price.amount = 0
              /\ extracted[1].price.currency = <<"R", "S", "D">>
              /\ extracted[1].price.formatted = o.clean

\* C15 as stated: the container "PS5 Bundle", "12.500 din", "Beograd",
\* "pre 3 dana" yields an ad with price.amount 12500 (12500000 thousandths),
\* priceNumeric 12500, currency RSD, postedDaysAgo 3 and isValidAd true.
C15_Ps5BundleScenario ==
  (pc = "Extracted" /\ files[1].containers[1] = cPS5) =>
    /\ extracted[1].ret.kind = "ad"
    /\ extracted[1].ret.ad.raw.price.amount = 12500 * 1000
    /\ extracted[1].ret.ad.parsed.priceNumeric = 12500 * 1000
    /\ extracted[1].ret.ad.raw.price.currency = <<"R", "S", "D">>
    /\ extracted[1].ret.ad.parsed.postedDaysAgo = 3
    /\ extracted[1].ret.ad.parsed.isValidAd

\* C16: for every N, extractDaysAgo returns N for "pre N dana" and
\* "pre N dan", and 0 for "pre N sati", "pre N minuta" and for a text
\* without a day pattern.
C16_DaysAgoOnlyForDayUnits ==
  (pc = "Extracted" /\ extracted[1].ret.kind = "ad") =>
    /\ \A f \in PostedForms :
         files[1].containers[1].postedText = PostedText(f)
           => extracted[1].ret.ad.parsed.postedDaysAgo
                = IF f.unit.kind = "day" THEN f.n ELSE 0
    /\ files[1].containers[1].postedText \in OtherPostedTexts
         => extracted[1].ret.ad.parsed.postedDaysAgo = 0

\* an ad posted "pre  12 DANA" has postedDaysAgo 12
C16_Witness ==
  /\ pc = "Extracted"
  /\ files[1].containers[1].postedText =
       <<"p", "r", "e", " ", " ", "1", "2", " ", "D", "A", "N", "A">>
  /\ extracted[1].ret.kind = "ad"
  /\ extracted[1].ret.ad.parsed.postedDaysAgo = 12

\* the duration of a unit in minutes: 86,400,000 ms, 3,600,000 ms, 60,000 ms
UnitDuration(kind) ==
  CASE kind = "day" -> 24 * 60
    [] kind = "hour" -> 60
    [] kind = "minute" -> 1

\* C17: for "pre N <unit>" parsePostedDate returns the capture time minus N
\* days, N hours or N minutes, according to the unit; for a text without
\* the pattern it returns undefined.
C17_PostedDateIsCaptureMinusAge ==
  pc = "Extracted" =>
    /\ \A f \in PostedForms :
         files[1].containers[1].postedText = PostedText(f)
           => extracted[1].metrics.postedDate
                = <<captureTimes[1] - f.n * UnitDuration(f.unit.kind)>>
    /\ files[1].containers[1].postedText \in OtherPostedTexts
         => extracted[1].metrics.postedDate = <<>>

\* "pre 12 Sati" parsed 90 minutes after Now: twelve hours earlier
C17_Witness ==
  /\ pc = "Extracted"
  /\ files[1].containers[1].postedText =
       <<"p", "r", "e", " ", "1", "2", " ", "S", "a", "t", "i">>
  /\ captureTimes = <<Now + 90>>
  /\ extracted[1].metrics.postedDate = <<Now + 90 - 12 * 60>>

\* C19 as stated: the combined result of a session holds every error and
\* every warning that a page parse recorded, and its success flag is false
\* whenever a page recorded an error.
C19_CombinedResultKeepsErrors ==
  combinedResult # <<>> =>
    /\ \A k \in 1..Len(pageParsingResults) :
         /\ \A e \in 1..Len(pageParsingResults[k].errors) :
              \E m \in 1..Len(combinedResult[1].errors) :
                combinedResult[1].errors[m] = pageParsingResults[k].errors[e]
         /\ \A w \in 1..Len(pageParsingResults[k].warnings) :
              \E m \in 1..Len(combinedResult[1].warnings) :
                combinedResult[1].warnings[m] = pageParsingResults[k].warnings[w]
    /\ (\E k \in 1..Len(pageParsingResults) :
          pageParsingResults[k].errors # <<>>)
         => combinedResult[1].success = FALSE

\* C20 as stated: totalAdsFound, successfullyParsed, failedToParse and
\* parsingTimeMs of the combined result are each the sum of that statistic
\* over the page results.
C20_CombinedStatsAreSums ==
  combinedResult # <<>> =>
    /\ combinedResult[1].stats.totalAdsFound =
         SumSeq([k \in 1..Len(pageParsingResults) |->
                   pageParsingResults[k].stats.totalAdsFound])
    /\ combinedResult[1].stats.successfullyParsed =
         SumSeq([k \in 1..Len(pageParsingResults) |->
                   pageParsingResults[k].stats.successfullyParsed])
    /\ combinedResult[1].stats.failedToParse =
         SumSeq([k \in 1..Len(pageParsingResults) |->
                   pageParsingResults[k].stats.failedToParse])
    /\ combinedResult[1].stats.parsingTimeMs =
         SumSeq([k \in 1..Len(pageParsingResults) |->
                   pageParsingResults[k].stats.parsingTimeMs])

\* what an emitted ad record must satisfy
WellFormedAd(ad) ==
  /\ ad.parsed.isValidAd = TRUE
  /\ ad.scrapingMetadata.parsingSuccess = TRUE
  /\ ad.scrapingMetadata.parsingErrors = <<>>
  /\ ad.raw.title # <<>>
  /\ ad.raw.price.formatted # <<>>
  /\ ad.raw.url # <<>>
  /\ ad.parsed.priceNumeric = ad.raw.price.amount

\* C25: every ad of a page result and of the combined result has isValidAd
\* and parsingSuccess true, no parsing error, a title, a formatted price and
\* a url that are not empty, and priceNumeric equal to price.amount.
C25_EmittedAdsAreWellFormed ==
  /\ \A k \in 1..Len(pageParsingResults) :
       \A a \in 1..Len(pageParsingResults[k].extractedAds) :
         WellFormedAd(pageParsingResults[k].extractedAds[a])
  /\ combinedResult # <<>> =>
       \A a \in 1..Len(combinedResult[1].extractedAds) :
         WellFormedAd(combinedResult[1].extractedAds[a])

\* a session returned one ad from a page whose other two containers had a
\* blank title and a raising extraction
C25_Witness ==
  /\ pc = "Done"
  /\ Len(files) = 1
  /\ files[1].containers = <<cNoTitle, cThrows, cHours>>
  /\ Len(combinedResult[1].extractedAds) = 1
  /\ combinedResult[1].extractedAds[1].raw.id = <<"2">>

\* the containers of a page the builder rejects with null
RejectedContainers(cs) ==
  {k \in 1..Len(cs) : parseAdElement(cs[k], Now).kind = "null"}

\* C29: in a result of parseHtmlFile successfullyParsed is the number of
\* extracted ads, and totalAdsFound exceeds successfullyParsed +
\* failedToParse by exactly the number of containers the builder rejected
\* with null, which leave no error and no warning.
C29_RejectedAdsAreTheShortfall ==
  pc = "Parsed" =>
    /\ pageParsingResults[1].stats.successfullyParsed
         = Len(pageParsingResults[1].extractedAds)
    /\ pageParsingResults[1].stats.successfullyParsed
         + pageParsingResults[1].stats.failedToParse
         <= pageParsingResults[1].stats.totalAdsFound
    /\ pageParsingResults[1].stats.totalAdsFound
         - pageParsingResults[1].stats.successfullyParsed
         - pageParsingResults[1].stats.failedToParse
         = IF files[1].readable
           THEN Cardinality(RejectedContainers(files[1].containers))
           ELSE 0
    /\ pageParsingResults[1].warnings = <<>>
    /\ files[1].readable =>
         \A e \in 1..Len(pageParsingResults[1].errors) :
           /\ pageParsingResults[1].errors[e].adIndex # <<>>
           /\ pageParsingResults[1].errors[e].adIndex[1] + 1
                \notin RejectedContainers(files[1].containers)

\* a page with a rejected, a raising and an accepted container: 3 found,
\* 1 parsed, 1 failed
C29_Witness ==
  /\ pc = "Parsed"
  /\ files[1].readable
  /\ files[1].containers = <<cNoTitle, cThrows, cFresh>>
  /\ pageParsingResults[1].stats.totalAdsFound = 3
  /\ pageParsingResults[1].stats.successfullyParsed = 1
  /\ pageParsingResults[1].stats.failedToParse = 1

\* C30 as stated: for every posted-time text, one fragment or several, if
\* postedDaysAgo is N > 0 then metrics.postedDate is the capture time minus
\* N days, and if metrics.postedDate is undefined then postedDaysAgo is 0.
C30_TimeExtractorsAgree ==
  (pc = "Extracted" /\ extracted[1].ret.kind = "ad") =>
    /\ extracted[1].ret.ad.parsed.postedDaysAgo > 0 =>
         extracted[1].metrics.postedDate
           = <<captureTimes[1]
                 - extracted[1].ret.ad.parsed.postedDaysAgo * DayMinutes>>
    /\ extracted[1].metrics.postedDate = <<>> =>
         extracted[1].ret.ad.parsed.postedDaysAgo = 0

\* the prefix test a URL scheme needs: "http://" or "https://"
IsAbsoluteUrl(href) ==
  \/ Len(href) >= 7 /\ SubSeq(href, 1, 7) = <<"h", "t", "t", "p", ":", "/", "/">>
  \/ Len(href) >= 8
       /\ SubSeq(href, 1, 8) = <<"h", "t", "t", "p", "s", ":", "/", "/">>

CountOf(text) ==
  IF ParseInt(Trim(text)) = <<>> THEN 0 ELSE ParseInt(Trim(text))[1]

\* C23 as stated: views is taken from the first counter widget and
\* favorites from the second, each is a non-negative integer, and each is 0
\* when its widget is absent or its text does not parse as an integer.
C23_ViewsAndFavorites ==
  pc = "Extracted" =>
    /\ extracted[1].metrics.views >= 0
    /\ extracted[1].metrics.favorites >= 0
    /\ extracted[1].metrics.views
         = IF Len(files[1].containers[1].counters) >= 1
           THEN CountOf(files[1].containers[1].counters[1])
           ELSE 0
    /\ extracted[1].metrics.favorites
         = IF Len(files[1].containers[1].counters) >= 2
           THEN CountOf(files[1].containers[1].counters[2])
           ELSE 0

\* C22 as stated: the detected page count is never a number above the
\* ceiling, from a link or from the pagination text, and every number of
\* the text that is within the ceiling is considered, whatever other
\* numbers the text holds.
C22_CeilingOnDetectedCount ==
  pc = "Evaluated" =>
    /\ maxPage <= PageCeiling
    /\ \A k \in 1..Len(pagination[1].text) :
         pagination[1].text[k] \in 1..PageCeiling
           => maxPage >= pagination[1].text[k]

\* C21 as stated: once the caller has asked to abort while page i is in
\* work, no page after i is fetched.
C21_AbortStopsLaterPages ==
  abortAt # <<>> =>
    \A k \in 1..Len(log) :
      log[k].ev = "fetchStart" => log[k].page <= abortAt[1]

\* the pages of the failures recorded
FailedAt == {failures[k].page : k \in 1..Len(failures)}

\* the ScrapedData of the URLs us[k..] that did not fail, in input order
RECURSIVE Succeeded(_, _, _)
Succeeded(us, failed, k) ==
  IF k > Len(us) THEN <<>>
  ELSE IF k \in failed THEN Succeeded(us, failed, k + 1)
  ELSE <<[url |-> us[k]]>> \o Succeeded(us, failed, k + 1)

\* C26: scrapeMultiple requests the URLs in input order and one at a time,
\* waits the delay after every request, the last one included, never
\* throws, and returns exactly the data of the URLs whose scrape succeeded,
\* in input order.
C26_ScrapeMultipleInOrder ==
  pc \in {"WebLoop", "WebRequest", "WebDelay", "WebReturned"} =>
    /\ inFlight <= 1
    /\ error = "none"
    /\ \A k \in 1..Len(log) :
         log[k] = Event(IF k % 2 = 1 THEN "request" ELSE "delay", (k + 1) \div 2)
    /\ pc = "WebReturned" =>
         /\ Len(log) = 2 * Len(urls)
         /\ webResults = Succeeded(urls, FailedAt, 1)

\* three URLs, the second fails: the first and third are returned
C26_Witness ==
  /\ pc = "WebReturned"
  /\ urls = <<"a", "b", "c">>
  /\ FailedAt = {2}
  /\ webResults = <<[url |-> "a"], [url |-> "c"]>>
  /\ Len(log) = 6

\* the positions right behind the guard of an operation
PastGuard == {"NewPage", "ScrapeNewPage", "DetailsNewPage"}

\* C27: no step of an operation launches or closes the browser; in any
\* sequence of init, close and operations, a call made while no browser is
\* held raises "Browser not initialized" without opening a page, a call
\* made while one is held passes the guard, and close() without a browser
\* changes nothing.
C27_BrowserLifecycleIsTheCallers ==
  [][/\ (pc # "NotStarted" \/ pc' # "NotStarted") => browser' = browser
     /\ (pc = "NotStarted" /\ pc' # "NotStarted" /\ ~browser) =>
          /\ pc' = "Raised"
          /\ error' = "BrowserNotInitialized"
          /\ openPages' = openPages
     /\ (pc = "NotStarted" /\ pc' # "NotStarted" /\ browser) =>
          /\ pc' \in PastGuard
          /\ error' = "none"
     /\ (pc = "Raised" /\ error = "BrowserNotInitialized") =>
          pc' = "NotStarted" /\ openPages' = openPages
     /\ (pc = "NotStarted" /\ pc' = "NotStarted" /\ ~browser /\ ~browser') =>
          UNCHANGED vars]_vars

\* an operation called while no browser is held has raised, no page open
C27_Witness ==
  /\ pc = "Raised"
  /\ error = "BrowserNotInitialized"
  /\ ~browser
  /\ openPages = 0
  /\ failures = <<>>

\* the positions between a successful newPage() and the page.close() of
\* the finally block
PageOpen ==
  {"DetectingPageCount", "Loop", "FetchingPage", "Delay", "Finally",
   "Scraping", "ScrapeFinally", "DetailsLoading", "DetailsFinally"}

\* C28: an operation holds exactly one open page from its newPage() to its
\* finally block and none once it has returned or raised, on every path;
\* no page is closed twice and none is left open.
C28_PagesClosedExactlyOnce ==
  openPages = IF pc \in PageOpen THEN 1 ELSE 0

\* scrapeMarketplace has raised after a failure inside its try block, and
\* its page is closed
C28_Witness ==
  /\ pc = "Raised"
  /\ error = "RendererError"
  /\ failures = <<Event("scrape", 0)>>
  /\ openPages = 0

====
